---- MODULE Spec2Model ----
(***************************************************************************)
(* A model of the turducken workbench (rfielding/turducken): the Prolog    *)
(* engine facade (pkg/prolog/engine.go), the CTL predicates of its core    *)
(* library, and the HTTP handlers of pkg/server/server.go that load a      *)
(* specification and check properties against it.                          *)
(*                                                                         *)
(* The interpreter itself (github.com/ichiban/prolog) is not part of the   *)
(* source tree.  Its resolver is modelled by the truth value of a goal     *)
(* under SLD resolution with negation as failure, a predicate without      *)
(* clauses having no solution.                                             *)
(***************************************************************************)
EXTENDS Integers, Sequences, FiniteSets, TLC

\* ------------------------------------------------------------------------
\* Bounds of the model
\* ------------------------------------------------------------------------

\* Largest number of transition/3 clauses in a specification drawn by SpecCTL.
MaxTransitions == 3

\* Largest number of prop/2 clauses in a specification drawn by SpecCTL.
MaxProps == 2

\* The atoms specifications are written over.
States == {"s0", "s1", "s2"}
StateSeq == <<"s0", "s1", "s2">>
Props == {"p", "q"}
PropSeq == <<"p", "q">>

\* ------------------------------------------------------------------------
\* State
\* ------------------------------------------------------------------------

VARIABLES
    interpreter,   \* Engine.interpreter: the clause database, per predicate
    specSource,    \* Engine.specSource: the retained source text
    goal,          \* the query a caller has submitted to QueryOne, or NoGoal
    answer,        \* what QueryOne returned for goal, or NoAnswer
    frame,         \* the call of a recursive CTL predicate being resolved
    mu,            \* Engine.mu: the writer and the readers holding it
    smu,           \* Server.mu: the goroutine holding it, or Nobody
    cachedSimulation,  \* Server.cachedSimulation
    counters,      \* Server.counters
    pc,            \* per request goroutine: where it is in its handler
    req,           \* per request goroutine: the request it serves
    resp,          \* per request goroutine: the result it has so far
    loc,           \* per request goroutine: locals of runAndCacheSimulation
    started        \* number of requests accepted so far

engineVars == <<interpreter, specSource>>
callerVars == <<goal, answer, frame>>
serverVars == <<mu, smu, cachedSimulation, counters, pc, req, resp, loc, started>>
vars == <<interpreter, specSource, goal, answer, frame,
          mu, smu, cachedSimulation, counters, pc, req, resp, loc, started>>

NoGoal == <<"none">>
NoAnswer == <<"none">>
NoFrame == <<"none">>

\* ------------------------------------------------------------------------
\* Source text and the clause database
\* ------------------------------------------------------------------------

\* A source text is a sequence of clause texts.  A clause text is a fact
\* <<functor, arg, ...>>, or a piece of text that is no clause.
SyntaxError == <<"this is not valid prolog (">>

\* The predicates the projections query, none of which the core library
\* defines.
ViewFunctors ==
    {"lifeline", "message", "msg_annotation", "actor_transition", "property",
     "pie_slice", "line_point", "doc", "actor"}

Functors ==
    {"transition", "prop", "initial", "accepting", "state_guard",
     "transition_guard", "rule", "check_ctl"} \cup ViewFunctors

IsClause(c) == c[1] \in Functors

\* The clause database right after loadCore, one clause list per predicate
\* a specification may define: the core library defines no transition/3,
\* prop/2, initial/1 or accepting/1 clause, its state_guard/2 and
\* transition_guard/4 clauses fail, and dice0_value/1 has no fact.  A clause
\* <<"rule", G, Low, High>> is G :- dice0(Low, High) and <<"rule", G, "fail">>
\* is G :- fail, for a guard predicate G/0.  The core
\* library is itself a text given to Exec; of its predicates check_ctl/1 is
\* kept as a clause, the others are the operators below.  The clauses of the
\* predicates in ViewFunctors are kept together, in clause order, in facts.
CoreClause == <<"check_ctl", "Phi", "initial(S), ctl_sat(S, Phi)">>

CoreDb ==
    [transition |-> <<>>, prop |-> <<>>, initial |-> <<>>, accepting |-> <<>>,
     state_guard |-> <<>>, transition_guard |-> <<>>, rule |-> <<>>,
     dice0_value |-> <<>>, check_ctl |-> <<CoreClause>>, facts |-> <<>>]

ClausesOf(source, functor) == SelectSeq(source, LAMBDA c : c[1] = functor)

\* Two clauses of the same predicate: same functor, same arity.
SamePredicate(c1, c2) == c1[1] = c2[1] /\ Len(c1) = Len(c2)

\* interpreter.Exec(source): the text is parsed as a whole; a text that does
\* not parse is rejected and installs nothing.
ParseOk(source) == \A i \in 1..Len(source) : IsClause(source[i])

\* The clauses of a parsed text are installed together: a predicate the
\* text defines gets the text's clauses for it, in text order, in place of
\* the clauses it had; the other predicates keep theirs.
Exec(D, source) ==
    [f \in DOMAIN D |->
        IF f = "facts"
        THEN SelectSeq(D.facts,
                       LAMBDA c : \A i \in 1..Len(source) :
                                     ~SamePredicate(source[i], c))
                 \o SelectSeq(source, LAMBDA c : c[1] \in ViewFunctors)
        ELSE IF Len(ClausesOf(source, f)) > 0
             THEN ClausesOf(source, f)
             ELSE D[f]]

\* ------------------------------------------------------------------------
\* Resolver builtins used by the core library
\* ------------------------------------------------------------------------

\* member(X, List) for a ground X.
member(X, List) == \E i \in 1..Len(List) : List[i] = X

\* findall(Next, transition(State, _, Next), Nexts): one entry per matching
\* clause, in clause order.
Nexts(D, State) ==
    LET ts == SelectSeq(D.transition, LAMBDA t : t[2] = State)
    IN  [i \in 1..Len(ts) |-> ts[i][4]]

\* prop(State, P) has a solution.
prop(D, State, P) == \E i \in 1..Len(D.prop) : D.prop[i] = <<"prop", State, P>>

\* ------------------------------------------------------------------------
\* CTL predicates of the core library (Engine.loadCore)
\* ------------------------------------------------------------------------

RECURSIVE ctl_sat(_, _, _)
RECURSIVE ctl_ef3(_, _, _, _)
RECURSIVE ctl_af3(_, _, _, _)
RECURSIVE ctl_eg3(_, _, _, _)
RECURSIVE ctl_ag3(_, _, _, _)
RECURSIVE ctl_eu(_, _, _, _, _)
RECURSIVE ctl_au(_, _, _, _, _)

\* ctl_ex(State, Phi) :- transition(State, _, Next), ctl_sat(Next, Phi).
ctl_ex(D, State, Phi) ==
    \E i \in 1..Len(Nexts(D, State)) : ctl_sat(D, Nexts(D, State)[i], Phi)

\* ctl_ax without the Nexts \= [] goal: vacuously true at a dead end.
ctl_ax_vacuous(D, State, Phi) ==
    \A i \in 1..Len(Nexts(D, State)) : ctl_sat(D, Nexts(D, State)[i], Phi)

\* ctl_ax(State, Phi) :- findall(..., Nexts), Nexts \= [],
\*                       forall(member(N, Nexts), ctl_sat(N, Phi)).
ctl_ax(D, State, Phi) ==
    LET ns == Nexts(D, State)
    IN  /\ ns # <<>>
        /\ \A i \in 1..Len(ns) : ctl_sat(D, ns[i], Phi)

\* ctl_ef/3 that looks at the successors only, never at State itself.
ctl_ef3_strict(D, State, Phi, Visited) ==
    /\ ~member(State, Visited)
    /\ \E i \in 1..Len(Nexts(D, State)) :
           \/ ctl_sat(D, Nexts(D, State)[i], Phi)
           \/ ctl_ef3(D, Nexts(D, State)[i], Phi, <<State>> \o Visited)

\* ctl_ef(State, Phi, Visited): Phi holds here, or State is not on the path
\* yet and some successor has ctl_ef with State pushed.
ctl_ef3(D, State, Phi, Visited) ==
    \/ ctl_sat(D, State, Phi)
    \/ /\ ~member(State, Visited)
       /\ \E i \in 1..Len(Nexts(D, State)) :
              ctl_ef3(D, Nexts(D, State)[i], Phi, <<State>> \o Visited)

ctl_ef(D, State, Phi) == ctl_ef3(D, State, Phi, <<>>)

\* ctl_af/3 without the Nexts \= [] goal.
ctl_af3_vacuous(D, State, Phi, Visited) ==
    \/ ctl_sat(D, State, Phi)
    \/ /\ ~member(State, Visited)
       /\ \A i \in 1..Len(Nexts(D, State)) :
              ctl_af3(D, Nexts(D, State)[i], Phi, <<State>> \o Visited)

\* ctl_af(State, Phi, Visited).
ctl_af3(D, State, Phi, Visited) ==
    \/ ctl_sat(D, State, Phi)
    \/ /\ ~member(State, Visited)
       /\ Nexts(D, State) # <<>>
       /\ \A i \in 1..Len(Nexts(D, State)) :
              ctl_af3(D, Nexts(D, State)[i], Phi, <<State>> \o Visited)

ctl_af(D, State, Phi) == ctl_af3(D, State, Phi, <<>>)

\* ctl_eg/3 that fails on a revisited state, as ctl_ef/3 does.
ctl_eg3_cycleFails(D, State, Phi, Visited) ==
    /\ ctl_sat(D, State, Phi)
    /\ ~member(State, Visited)
    /\ \E i \in 1..Len(Nexts(D, State)) :
           ctl_eg3(D, Nexts(D, State)[i], Phi, <<State>> \o Visited)

\* ctl_eg(State, Phi, Visited).
ctl_eg3(D, State, Phi, Visited) ==
    /\ ctl_sat(D, State, Phi)
    /\ IF member(State, Visited)
       THEN TRUE
       ELSE \E i \in 1..Len(Nexts(D, State)) :
                ctl_eg3(D, Nexts(D, State)[i], Phi, <<State>> \o Visited)

ctl_eg(D, State, Phi) == ctl_eg3(D, State, Phi, <<>>)

\* ctl_ag/3 that asks one successor only, as ctl_eg/3 does.
ctl_ag3_some(D, State, Phi, Visited) ==
    /\ ctl_sat(D, State, Phi)
    /\ IF member(State, Visited)
       THEN TRUE
       ELSE \E i \in 1..Len(Nexts(D, State)) :
                ctl_ag3(D, Nexts(D, State)[i], Phi, <<State>> \o Visited)

\* ctl_ag(State, Phi, Visited).
ctl_ag3(D, State, Phi, Visited) ==
    /\ ctl_sat(D, State, Phi)
    /\ IF member(State, Visited)
       THEN TRUE
       ELSE \A i \in 1..Len(Nexts(D, State)) :
                ctl_ag3(D, Nexts(D, State)[i], Phi, <<State>> \o Visited)

ctl_ag(D, State, Phi) == ctl_ag3(D, State, Phi, <<>>)

\* ctl_eu/4 without the ctl_sat(State, Phi) goal.
ctl_eu_noPhi(D, State, Phi, Psi, Visited) ==
    \/ ctl_sat(D, State, Psi)
    \/ /\ ~member(State, Visited)
       /\ \E i \in 1..Len(Nexts(D, State)) :
              ctl_eu(D, Nexts(D, State)[i], Phi, Psi, <<State>> \o Visited)

\* ctl_eu(State, Phi, Psi, Visited).
ctl_eu(D, State, Phi, Psi, Visited) ==
    \/ ctl_sat(D, State, Psi)
    \/ /\ ~member(State, Visited)
       /\ ctl_sat(D, State, Phi)
       /\ \E i \in 1..Len(Nexts(D, State)) :
              ctl_eu(D, Nexts(D, State)[i], Phi, Psi, <<State>> \o Visited)

\* ctl_au(State, Phi, Psi, Visited).
ctl_au(D, State, Phi, Psi, Visited) ==
    \/ ctl_sat(D, State, Psi)
    \/ /\ ~member(State, Visited)
       /\ ctl_sat(D, State, Phi)
       /\ Nexts(D, State) # <<>>
       /\ \A i \in 1..Len(Nexts(D, State)) :
              ctl_au(D, Nexts(D, State)[i], Phi, Psi, <<State>> \o Visited)

\* ctl_sat(State, Formula): one clause per constructor; a term that is no
\* formula matches no clause.
ctl_sat(D, State, F) ==
    CASE F[1] = "atom" -> prop(D, State, F[2])
      [] F[1] = "not"  -> ~ctl_sat(D, State, F[2])
      [] F[1] = "and"  -> ctl_sat(D, State, F[2]) /\ ctl_sat(D, State, F[3])
      [] F[1] = "or"   -> ctl_sat(D, State, F[2]) \/ ctl_sat(D, State, F[3])
      [] F[1] = "ex"   -> ctl_ex(D, State, F[2])
      [] F[1] = "ax"   -> ctl_ax(D, State, F[2])
      [] F[1] = "ef"   -> ctl_ef(D, State, F[2])
      [] F[1] = "af"   -> ctl_af(D, State, F[2])
      [] F[1] = "eg"   -> ctl_eg(D, State, F[2])
      [] F[1] = "ag"   -> ctl_ag(D, State, F[2])
      [] F[1] = "eu"   -> ctl_eu(D, State, F[2], F[3], <<>>)
      [] F[1] = "au"   -> ctl_au(D, State, F[2], F[3], <<>>)
      [] OTHER         -> FALSE

\* check_ctl(Phi) :- initial(S), ctl_sat(S, Phi).
check_ctl_core(D, Phi) ==
    \E i \in 1..Len(D.initial) : ctl_sat(D, D.initial[i][2], Phi)

\* The goal check_ctl(Phi) resolved against the clauses check_ctl/1 has in
\* the database: the clause of the core library, or facts check_ctl(F) of a
\* loaded text.
check_ctl(D, Phi) ==
    \E i \in 1..Len(D.check_ctl) :
        IF D.check_ctl[i] = CoreClause
        THEN check_ctl_core(D, Phi)
        ELSE D.check_ctl[i][2] = Phi

\* ------------------------------------------------------------------------
\* Engine facade (pkg/prolog), as used by one caller at a time
\* ------------------------------------------------------------------------

\* LoadSpec retaining the texts of all loads, as the database does.
LoadSpec_appendsSource(source) ==
    /\ goal = NoGoal /\ frame = NoFrame
    /\ specSource' = specSource \o source
    /\ interpreter' = IF ParseOk(source) THEN Exec(interpreter, source) ELSE interpreter
    /\ UNCHANGED <<goal, answer, frame>>
    /\ UNCHANGED serverVars

\* LoadSpec as a loop of assertz over the clauses of the text.
LoadSpec_assertsEach(source) ==
    /\ goal = NoGoal /\ frame = NoFrame
    /\ specSource' = source
    /\ interpreter' =
           IF ParseOk(source)
           THEN [f \in DOMAIN interpreter |->
                    interpreter[f] \o ClausesOf(source, f)]
           ELSE interpreter
    /\ UNCHANGED <<goal, answer, frame>>
    /\ UNCHANGED serverVars

\* Engine.LoadSpec(source): the source is retained first, then executed.
LoadSpec(source) ==
    /\ goal = NoGoal /\ frame = NoFrame
    /\ specSource' = source
    /\ interpreter' = IF ParseOk(source) THEN Exec(interpreter, source) ELSE interpreter
    /\ UNCHANGED <<goal, answer, frame>>
    /\ UNCHANGED serverVars

\* Engine.Reset(): a new interpreter with the core library, no source.
Reset ==
    /\ goal = NoGoal /\ frame = NoFrame
    /\ interpreter # CoreDb \/ specSource # <<>>
    /\ interpreter' = CoreDb
    /\ specSource' = <<>>
    /\ UNCHANGED <<goal, answer, frame>>
    /\ UNCHANGED serverVars

\* Engine.QueryOne(ctx, "check_ctl(Phi)."), as issued by Server.handleCheck:
\* true iff the goal has a first solution.
QueryOne(Phi) ==
    /\ goal = NoGoal
    /\ frame = NoFrame
    /\ goal' = <<"check_ctl", Phi>>
    /\ answer' = <<check_ctl(interpreter, Phi), "nil">>
    /\ UNCHANGED <<interpreter, specSource, frame>>
    /\ UNCHANGED serverVars

\* Engine.GetSource(): the retained source text.
GetSource ==
    /\ goal = NoGoal
    /\ frame = NoFrame
    /\ goal' = <<"GetSource">>
    /\ answer' = <<specSource, "nil">>
    /\ UNCHANGED <<interpreter, specSource, frame>>
    /\ UNCHANGED serverVars

\* Server.handleCheck writes the response; the request is over.
Respond ==
    /\ goal # NoGoal
    /\ goal' = NoGoal
    /\ answer' = NoAnswer
    /\ UNCHANGED <<interpreter, specSource, frame>>
    /\ UNCHANGED serverVars

\* ------------------------------------------------------------------------
\* The HTTP server around the engine: its state after server.New("")
\* ------------------------------------------------------------------------

\* The goroutines serving requests concurrently.
Clients == {"c1", "c2"}

\* The number of requests the server accepts in one run.
MaxRequests == 3

Nobody == "nobody"

\* sync.RWMutex of the engine: no writer, no reader.
Unlocked == [w |-> Nobody, r |-> {}]

NoRequest == <<"none">>
NoResponse == <<"none">>

\* Server.cachedSimulation before the first simulation: a nil pointer.
NoSimulation == [nil |-> TRUE]

\* A SimulationResult as runAndCacheSimulation constructs it.
EmptyResult ==
    [ByType |-> << >>, BySrc |-> << >>, ByDst |-> << >>,
     Timeline |-> <<>>, Total |-> 0, Steps |-> 0]

\* counts[key] = 1 in place of counts[key]++.
Incremented_setsOne(counts, key) ==
    [x \in DOMAIN counts \cup {key} |-> IF x = key THEN 1 ELSE counts[x]]

\* counts[key]++ on a Go map: a missing key counts from zero.
Incremented(counts, key) ==
    [x \in DOMAIN counts \cup {key} |->
        IF x = key
        THEN (IF key \in DOMAIN counts THEN counts[key] ELSE 0) + 1
        ELSE counts[x]]

\* No solutions iterator: the local sols of Query, QueryOne and RawQuery
\* outside a call.
NoSols == [found |-> 0, err |-> "nil"]

\* The locals of a request goroutine before its handler runs: sols of the
\* engine method it is in, the locals of runAndCacheSimulation, and results
\* and i of handleProperties.
NoLocals ==
    [sols          |-> NoSols,
     results       |-> <<>>,
     i             |-> 0,
     sm            |-> [Transitions |-> <<>>, Initial |-> <<>>],
     currentStates |-> [a \in {} |-> "s0"],
     step          |-> 0,
     dice          |-> 0,
     possible      |-> <<>>,
     result        |-> EmptyResult]

ServerInit ==
    /\ mu = Unlocked
    /\ smu = Nobody
    /\ cachedSimulation = NoSimulation
    /\ counters = [spec_loads |-> 0, ctl_checks |-> 0, queries |-> 0]
    /\ pc = [c \in Clients |-> "idle"]
    /\ req = [c \in Clients |-> NoRequest]
    /\ resp = [c \in Clients |-> NoResponse]
    /\ loc = [c \in Clients |-> NoLocals]
    /\ started = 0

\* ------------------------------------------------------------------------
\* SpecCTL: every small Kripke structure, every formula of a small set
\* ------------------------------------------------------------------------

AllTransitions ==
    [i \in 1..9 |-> <<"transition", StateSeq[((i - 1) \div 3) + 1], "a",
                      StateSeq[((i - 1) % 3) + 1]>>]

AllProps ==
    [i \in 1..6 |-> <<"prop", StateSeq[((i - 1) \div 2) + 1],
                      PropSeq[((i - 1) % 2) + 1]>>]

Range(seq) == {seq[i] : i \in 1..Len(seq)}

\* The source text with one initial state, the transitions T and the facts P.
SourceOf(s0, T, P) ==
    <<<<"initial", s0>>>>
        \o SelectSeq(AllTransitions, LAMBDA c : c \in T)
        \o SelectSeq(AllProps, LAMBDA c : c \in P)

TransitionSets ==
    {T \in SUBSET Range(AllTransitions) : Cardinality(T) <= MaxTransitions}

PropSets == {P \in SUBSET Range(AllProps) : Cardinality(P) <= MaxProps}

\* The formulas a temporal operator is applied to.
Inner ==
    { <<"atom", "p">>, <<"atom", "q">>, <<"not", <<"atom", "p">>>>,
      <<"ef", <<"atom", "q">>>> }

UnaryOps == {"ex", "ax", "ef", "af", "eg", "ag"}
BinaryOps == {"eu", "au"}

Formulas ==
    {<<op, X>> : op \in UnaryOps, X \in Inner}
        \cup {<<op, X, Y>> : op \in BinaryOps, X \in Inner, Y \in Inner}

Init ==
    /\ interpreter = CoreDb
    /\ specSource = <<>>
    /\ goal = NoGoal
    /\ answer = NoAnswer
    /\ frame = NoFrame
    /\ ServerInit

LoadFresh ==
    /\ interpreter = CoreDb
    /\ \E s0 \in States, T \in TransitionSets, P \in PropSets :
           LoadSpec(SourceOf(s0, T, P))

CheckFormula ==
    /\ interpreter # CoreDb
    /\ \E Phi \in Formulas : QueryOne(Phi)

NextCTL == LoadFresh \/ Reset \/ CheckFormula \/ Respond

SpecCTL == Init /\ [][NextCTL]_vars

\* ------------------------------------------------------------------------
\* SpecCalls: the chain of recursive calls of ctl_ef/3 .. ctl_au/4
\* ------------------------------------------------------------------------
\* frame is the innermost call <<op, State, Phi, Visited>> on the way down
\* from check_ctl(op(Phi)).  Each step below is the recursive call in the
\* second clause of one predicate (for ctl_eg/ctl_ag: in the else branch);
\* the resolver tries every successor, here a nondeterministic choice.  The
\* second clauses of ctl_ef, ctl_af, ctl_eu and ctl_au are reached when the
\* first fails and again on backtracking, so they carry no condition on the
\* first clause.

RecOps == {"ef", "af", "eg", "ag", "eu", "au"}

\* ctl_sat(S, op(Phi)) :- ctl_op(S, Phi), and ctl_op(S, Phi) :- ctl_op(S, Phi, []),
\* for the initial state S that check_ctl picked.
ctl_enter ==
    /\ goal = NoGoal /\ frame = NoFrame
    /\ interpreter # CoreDb
    /\ \E op \in RecOps, Phi \in Inner :
           frame' = <<op, interpreter.initial[1][2], Phi, <<>>>>
    /\ UNCHANGED <<interpreter, specSource, goal, answer>>
    /\ UNCHANGED serverVars

\* The recursive call made for one successor, with State pushed.
Descend ==
    /\ \E i \in 1..Len(Nexts(interpreter, frame[2])) :
           frame' = <<frame[1], Nexts(interpreter, frame[2])[i], frame[3],
                      <<frame[2]>> \o frame[4]>>
    /\ UNCHANGED <<interpreter, specSource, goal, answer>>
    /\ UNCHANGED serverVars

\* ctl_ef/3, second clause, without the \+ member(State, Visited) goal.
ctl_ef_rec_noVisitedTest ==
    /\ frame # NoFrame /\ frame[1] = "ef"
    /\ Descend

\* ctl_ef/3, second clause.
ctl_ef_rec ==
    /\ frame # NoFrame /\ frame[1] = "ef"
    /\ ~member(frame[2], frame[4])
    /\ Descend

\* ctl_af/3, second clause.
ctl_af_rec ==
    /\ frame # NoFrame /\ frame[1] = "af"
    /\ ~member(frame[2], frame[4])
    /\ Descend

\* ctl_eg/3.
ctl_eg_rec ==
    /\ frame # NoFrame /\ frame[1] = "eg"
    /\ ctl_sat(interpreter, frame[2], frame[3])
    /\ ~member(frame[2], frame[4])
    /\ Descend

\* ctl_ag/3.
ctl_ag_rec ==
    /\ frame # NoFrame /\ frame[1] = "ag"
    /\ ctl_sat(interpreter, frame[2], frame[3])
    /\ ~member(frame[2], frame[4])
    /\ Descend

\* ctl_eu/4, second clause.
ctl_eu_rec ==
    /\ frame # NoFrame /\ frame[1] = "eu"
    /\ ~member(frame[2], frame[4])
    /\ ctl_sat(interpreter, frame[2], frame[3])
    /\ Descend

\* ctl_au/4, second clause.
ctl_au_rec ==
    /\ frame # NoFrame /\ frame[1] = "au"
    /\ ~member(frame[2], frame[4])
    /\ ctl_sat(interpreter, frame[2], frame[3])
    /\ Descend

\* The calls return (or fail) and the query is over.
ctl_return ==
    /\ frame # NoFrame
    /\ frame' = NoFrame
    /\ UNCHANGED <<interpreter, specSource, goal, answer>>
    /\ UNCHANGED serverVars

NextCalls ==
    \/ LoadFresh \/ Reset \/ ctl_enter \/ ctl_return
    \/ ctl_ef_rec \/ ctl_af_rec \/ ctl_eg_rec \/ ctl_ag_rec \/ ctl_eu_rec \/ ctl_au_rec

SpecCalls == Init /\ [][NextCalls]_vars

\* ------------------------------------------------------------------------
\* The HTTP handlers: POST /api/spec and POST /api/check
\* ------------------------------------------------------------------------

\* The number of steps handleSpec asks the simulator for.
SimSteps == 1000

\* The values rand.Float64() is sampled from, in tenths.
Dice == {0, 2, 7}

\* The number of steps of the simulation a goroutine is running: handleSpec
\* asks for SimSteps, a direct caller for the number it passes.
Steps(c) == IF req[c][1] = "spec" THEN SimSteps ELSE req[c][2]

\* Specification A: one initial state, one guarded transition, p at its end.
SpecA ==
    << <<"initial", "s0">>,
       <<"transition", "s0", "a", "s1">>,
       <<"prop", "s1", "p">>,
       <<"transition_guard", "s0", "a", "s1", "g">>,
       <<"rule", "g", 0, 5>> >>

\* Specification B: two initial states, p in the first of them only.
SpecB ==
    << <<"initial", "s0">>,
       <<"initial", "s1">>,
       <<"prop", "s0", "p">>,
       <<"transition", "s0", "b", "s2">> >>

\* A source text that does not parse.
SpecBad == << <<"initial", "s0">>, SyntaxError >>

Sources == {SpecA, SpecB, SpecBad}

\* The properties clients ask POST /api/check for.
Properties == {<<"atom", "p">>, <<"ef", <<"atom", "p">>>>}

\* The goals clients send to POST /api/query: initial(S) and accepting(S).
RawQueries == {<<"initial">>, <<"accepting">>}

\* The solutions of a goal p(X...) with distinct variables: the clauses of
\* p, in clause order.
Solve(D, query) == D[query[1]]

\* What the solutions iterator of a goal with n solutions can do under a
\* deadline: enumerate all of them, or have found some of them when the
\* deadline expires; Next() then returns false and Err() the timeout.
Runs(n) ==
    {[found |-> n, err |-> "nil"]}
        \cup {[found |-> k, err |-> "timeout"] : k \in 0..n}

\* QueryOne: return sols.Next(), sols.Err() -- one call of Next.
QueryOneReturns(run) ==
    IF run.found >= 1 THEN <<TRUE, "nil">> ELSE <<FALSE, run.err>>

\* RawQuery: one "true" per solution; without any, "false" and no error.
RawQueryReturns(run) ==
    LET results == [i \in 1..run.found |-> "true"]
    IN  IF Len(results) = 0
        THEN <<"false", "nil">>
        ELSE <<results, run.err>>

\* Go's sync.RWMutex: RLock waits for the writer, Lock for everybody.
CanRLock == mu.w = Nobody
CanLock == mu.w = Nobody /\ mu.r = {}
HoldsNoLock(c) == mu.w # c /\ c \notin mu.r

\* A goroutine is at label l of its handler, outside every engine method.
At(c, l) == pc[c] = l /\ HoldsNoLock(c)

\* dice0(Low, High) :- (dice0_value(D) -> D >= Low, D < High ; true).
dice0(D, Low, High) ==
    IF Len(D.dice0_value) > 0
    THEN D.dice0_value[1] >= Low /\ D.dice0_value[1] < High
    ELSE TRUE

\* call(Guard) for a guard predicate Guard/0 of the specification: some
\* clause of Guard has a body that succeeds.
call(D, Guard) ==
    \/ Guard = "true"
    \/ \E i \in 1..Len(D.rule) :
           /\ D.rule[i][2] = Guard
           /\ Len(D.rule[i]) = 4
           /\ dice0(D, D.rule[i][3], D.rule[i][4])

stateGuardSatisfied(D, state) ==
    LET hasGuard == \E i \in 1..Len(D.state_guard) : D.state_guard[i][2] = state
    IN  IF ~hasGuard
        THEN TRUE
        ELSE \E i \in 1..Len(D.state_guard) :
                 /\ D.state_guard[i][2] = state
                 /\ call(D, D.state_guard[i][3])

Guards(D, t) ==
    SelectSeq(D.transition_guard,
              LAMBDA g : g[2] = t[2] /\ g[3] = t[3] /\ g[4] = t[4])

transitionGuardSatisfied(D, t) ==
    LET hasGuard == Len(Guards(D, t)) > 0
    IN  IF ~hasGuard
        THEN TRUE
        ELSE \E i \in 1..Len(Guards(D, t)) : call(D, Guards(D, t)[i][5])

\* transitionAllowed without its second test, the transition guard.
transitionAllowed_stateOnly(D, state, t) ==
    IF ~stateGuardSatisfied(D, state)
    THEN FALSE
    ELSE TRUE

transitionAllowed(D, state, t) ==
    IF ~stateGuardSatisfied(D, state)
    THEN FALSE
    ELSE transitionGuardSatisfied(D, t)

\* extractActor: the state names of the model hold no "_", so the actor of a
\* state is the state name itself.
extractActor(state) == state

\* transitionMap[state]: the transitions leaving state, in clause order.
transitionMap(sm, state) ==
    SelectSeq(sm.Transitions, LAMBDA t : t[2] = state)

RECURSIVE SetAll(_, _, _)
\* currentStates after "currentStates[extractActor(init)] = init" for the
\* initial states from position i on.
SetAll(cs, Initial, i) ==
    IF i > Len(Initial)
    THEN cs
    ELSE LET a == extractActor(Initial[i])
         IN  SetAll([x \in DOMAIN cs \cup {a} |->
                        IF x = a THEN Initial[i] ELSE cs[x]],
                    Initial, i + 1)

RECURSIVE Collect(_, _, _, _)
\* possibleTransitions gathered over the actors of StateSeq from position i
\* on: the allowed transitions leaving each actor's current state.
Collect(D, sm, cs, i) ==
    IF i > Len(StateSeq)
    THEN <<>>
    ELSE (IF StateSeq[i] \in DOMAIN cs
          THEN SelectSeq(transitionMap(sm, cs[StateSeq[i]]),
                         LAMBDA t : transitionAllowed(D, cs[StateSeq[i]], t))
          ELSE <<>>)
         \o Collect(D, sm, cs, i + 1)

\* --- releasing the engine lock (the deferred Unlock / RUnlock) ---

Unlock(c) ==
    /\ mu.w = c
    /\ mu' = [mu EXCEPT !.w = Nobody]
    /\ UNCHANGED <<engineVars, callerVars, smu, cachedSimulation, counters,
                   pc, req, resp, loc, started>>

\* RUnlock as it would be without defer: skipped on the error returns.
RUnlock_exceptOnError(c) ==
    /\ c \in mu.r
    /\ resp[c][1] # "error"
    /\ mu' = [mu EXCEPT !.r = @ \ {c}]
    /\ loc' = [loc EXCEPT ![c].sols = NoSols]
    /\ UNCHANGED <<engineVars, callerVars, smu, cachedSimulation, counters,
                   pc, req, resp, started>>

\* The deferred sols.Close() and e.mu.RUnlock() of a reading method.
RUnlock(c) ==
    /\ c \in mu.r
    /\ mu' = [mu EXCEPT !.r = @ \ {c}]
    /\ loc' = [loc EXCEPT ![c].sols = NoSols]
    /\ UNCHANGED <<engineVars, callerVars, smu, cachedSimulation, counters,
                   pc, req, resp, started>>

\* --- POST /api/spec ---

handleSpec(c, source) ==
    /\ At(c, "idle")
    /\ started < MaxRequests
    /\ started' = started + 1
    /\ req' = [req EXCEPT ![c] = <<"spec", source>>]
    /\ resp' = [resp EXCEPT ![c] = NoResponse]
    /\ pc' = [pc EXCEPT ![c] = "spec_Reset"]
    /\ UNCHANGED <<engineVars, callerVars, mu, smu, cachedSimulation,
                   counters, loc>>

\* Reset as a retraction of the facts of the state machine only.
spec_Reset_clearsFactsOnly(c) ==
    /\ At(c, "spec_Reset")
    /\ CanLock
    /\ mu' = [mu EXCEPT !.w = c]
    /\ interpreter' = [interpreter EXCEPT !.transition = <<>>,
                                          !.initial = <<>>,
                                          !.accepting = <<>>,
                                          !.prop = <<>>]
    /\ specSource' = <<>>
    /\ pc' = [pc EXCEPT ![c] = "spec_LoadSpec"]
    /\ UNCHANGED <<callerVars, smu, cachedSimulation, counters, req, resp,
                   loc, started>>

\* s.engine.Reset(): a fresh interpreter holding the core library only.
spec_Reset(c) ==
    /\ At(c, "spec_Reset")
    /\ CanLock
    /\ mu' = [mu EXCEPT !.w = c]
    /\ interpreter' = CoreDb
    /\ specSource' = <<>>
    /\ pc' = [pc EXCEPT ![c] = "spec_LoadSpec"]
    /\ UNCHANGED <<callerVars, smu, cachedSimulation, counters, req, resp,
                   loc, started>>

\* s.engine.LoadSpec(req.Source): the source is retained, then consulted.
spec_LoadSpec(c) ==
    /\ At(c, "spec_LoadSpec")
    /\ CanLock
    /\ mu' = [mu EXCEPT !.w = c]
    /\ specSource' = req[c][2]
    /\ IF ParseOk(req[c][2])
       THEN /\ interpreter' = Exec(interpreter, req[c][2])
            /\ pc' = [pc EXCEPT ![c] = "runAndCacheSimulation"]
       ELSE /\ interpreter' = interpreter
            /\ pc' = [pc EXCEPT ![c] = "spec_error"]
    /\ UNCHANGED <<callerVars, smu, cachedSimulation, counters, req, resp,
                   loc, started>>

\* The failure response of handleSpec; the handler returns.
spec_error(c) ==
    /\ At(c, "spec_error")
    /\ resp' = [resp EXCEPT ![c] = <<"success", FALSE>>]
    /\ pc' = [pc EXCEPT ![c] = "idle"]
    /\ UNCHANGED <<engineVars, callerVars, mu, smu, cachedSimulation,
                   counters, req, loc, started>>

\* --- runAndCacheSimulation(steps), under the server mutex ---

runAndCacheSimulation(c) ==
    /\ At(c, "runAndCacheSimulation")
    /\ smu = Nobody
    /\ smu' = c
    /\ loc' = [loc EXCEPT ![c] = NoLocals]
    /\ pc' = [pc EXCEPT ![c] = "sim_GetStateMachine"]
    /\ UNCHANGED <<engineVars, callerVars, mu, cachedSimulation, counters,
                   req, resp, started>>

\* s.engine.GetStateMachine(ctx): the transition/3 and initial/1 solutions.
sim_GetStateMachine(c) ==
    /\ At(c, "sim_GetStateMachine")
    /\ CanRLock
    /\ mu' = [mu EXCEPT !.r = @ \cup {c}]
    /\ loc' = [loc EXCEPT ![c].sm =
                  [Transitions |-> interpreter.transition,
                   Initial |-> [i \in 1..Len(interpreter.initial) |->
                                   interpreter.initial[i][2]]]]
    /\ pc' = [pc EXCEPT ![c] = "sim_start"]
    /\ UNCHANGED <<engineVars, callerVars, smu, cachedSimulation, counters,
                   req, resp, started>>

\* The early return on an empty state machine, else the initial actor states.
sim_start(c) ==
    /\ At(c, "sim_start")
    /\ IF Len(loc[c].sm.Initial) = 0 \/ Len(loc[c].sm.Transitions) = 0
       THEN /\ cachedSimulation' = loc[c].result
            /\ smu' = Nobody
            /\ loc' = [loc EXCEPT ![c] = NoLocals]
            /\ pc' = [pc EXCEPT ![c] =
                         IF req[c][1] = "spec" THEN "spec_success" ELSE "idle"]
       ELSE /\ loc' = [loc EXCEPT ![c].currentStates =
                          SetAll(NoLocals.currentStates, loc[c].sm.Initial, 1)]
            /\ pc' = [pc EXCEPT ![c] = "sim_loop"]
            /\ UNCHANGED <<smu, cachedSimulation>>
    /\ UNCHANGED <<engineVars, callerVars, mu, counters, req, resp, started>>

\* The loop head with "step <= steps".
sim_loop_inclusive(c) ==
    /\ At(c, "sim_loop")
    /\ IF loc[c].step <= Steps(c)
       THEN /\ \E d \in Dice : loc' = [loc EXCEPT ![c].dice = d]
            /\ pc' = [pc EXCEPT ![c] = "setDiceValue"]
       ELSE /\ pc' = [pc EXCEPT ![c] = "sim_return"]
            /\ UNCHANGED loc
    /\ UNCHANGED <<engineVars, callerVars, mu, smu, cachedSimulation,
                   counters, req, resp, started>>

\* The loop head: "step < steps", then dice := rand.Float64().
sim_loop(c) ==
    /\ At(c, "sim_loop")
    /\ IF loc[c].step < Steps(c)
       THEN /\ \E d \in Dice : loc' = [loc EXCEPT ![c].dice = d]
            /\ pc' = [pc EXCEPT ![c] = "setDiceValue"]
       ELSE /\ pc' = [pc EXCEPT ![c] = "sim_return"]
            /\ UNCHANGED loc
    /\ UNCHANGED <<engineVars, callerVars, mu, smu, cachedSimulation,
                   counters, req, resp, started>>

\* setDiceValue, first query: retractall(dice0_value(_)) through QueryOne.
setDiceValue(c) ==
    /\ At(c, "setDiceValue")
    /\ CanRLock
    /\ mu' = [mu EXCEPT !.r = @ \cup {c}]
    /\ interpreter' = [interpreter EXCEPT !.dice0_value = <<>>]
    /\ pc' = [pc EXCEPT ![c] = "setDiceValue_assertz"]
    /\ UNCHANGED <<specSource, callerVars, smu, cachedSimulation, counters,
                   req, resp, loc, started>>

\* setDiceValue, second query: assertz(dice0_value(dice)) through QueryOne.
setDiceValue_assertz(c) ==
    /\ At(c, "setDiceValue_assertz")
    /\ CanRLock
    /\ mu' = [mu EXCEPT !.r = @ \cup {c}]
    /\ interpreter' =
           [interpreter EXCEPT !.dice0_value = Append(@, loc[c].dice)]
    /\ pc' = [pc EXCEPT ![c] = "sim_collect"]
    /\ UNCHANGED <<specSource, callerVars, smu, cachedSimulation, counters,
                   req, resp, loc, started>>

\* The guard queries of one step: possibleTransitions.
sim_collect(c) ==
    /\ At(c, "sim_collect")
    /\ CanRLock
    /\ mu' = [mu EXCEPT !.r = @ \cup {c}]
    /\ loc' = [loc EXCEPT ![c].possible =
                  Collect(interpreter, loc[c].sm, loc[c].currentStates, 1)]
    /\ pc' = [pc EXCEPT ![c] = "sim_pick"]
    /\ UNCHANGED <<engineVars, callerVars, smu, cachedSimulation, counters,
                   req, resp, started>>

\* sim_pick filling the cached result in place: every recorded event is
\* visible in s.cachedSimulation at once.
sim_pick_publishes(c) ==
    /\ At(c, "sim_pick")
    /\ IF Len(loc[c].possible) = 0
       THEN /\ pc' = [pc EXCEPT ![c] = "clearDiceValue_break"]
            /\ UNCHANGED <<loc, cachedSimulation>>
       ELSE /\ \E i \in 1..Len(loc[c].possible) :
                  LET t == loc[c].possible[i]
                      a == extractActor(t[2])
                      cs == loc[c].currentStates
                  IN  loc' = [loc EXCEPT
                          ![c].currentStates =
                              [x \in DOMAIN cs \cup {a} |->
                                  IF x = a THEN t[4] ELSE cs[x]],
                          ![c].result.ByType = Incremented(@, t[3]),
                          ![c].result.BySrc =
                              Incremented(@, extractActor(t[2])),
                          ![c].result.ByDst =
                              Incremented(@, extractActor(t[4])),
                          ![c].result.Total = @ + 1,
                          ![c].result.Timeline =
                              Append(@, [Step |-> loc[c].step, Label |-> t[3],
                                         From |-> t[2], To |-> t[4]])]
            /\ cachedSimulation' = loc'[c].result
            /\ pc' = [pc EXCEPT ![c] = "clearDiceValue"]
    /\ UNCHANGED <<engineVars, callerVars, mu, smu, counters, req, resp,
                   started>>

\* t := possibleTransitions[rand.Intn(len)], recorded in the result; with
\* no possible transition the loop is left through clearDiceValue.
sim_pick(c) ==
    /\ At(c, "sim_pick")
    /\ IF Len(loc[c].possible) = 0
       THEN /\ pc' = [pc EXCEPT ![c] = "clearDiceValue_break"]
            /\ UNCHANGED loc
       ELSE /\ \E i \in 1..Len(loc[c].possible) :
                  LET t == loc[c].possible[i]
                      a == extractActor(t[2])
                      cs == loc[c].currentStates
                  IN  loc' = [loc EXCEPT
                          ![c].currentStates =
                              [x \in DOMAIN cs \cup {a} |->
                                  IF x = a THEN t[4] ELSE cs[x]],
                          ![c].result.ByType = Incremented(@, t[3]),
                          ![c].result.BySrc =
                              Incremented(@, extractActor(t[2])),
                          ![c].result.ByDst =
                              Incremented(@, extractActor(t[4])),
                          ![c].result.Total = @ + 1,
                          ![c].result.Timeline =
                              Append(@, [Step |-> loc[c].step, Label |-> t[3],
                                         From |-> t[2], To |-> t[4]])]
            /\ pc' = [pc EXCEPT ![c] = "clearDiceValue"]
    /\ UNCHANGED <<engineVars, callerVars, mu, smu, cachedSimulation,
                   counters, req, resp, started>>

\* clearDiceValue: retractall(dice0_value(_)), at the end of a step or
\* before the break.
clearDiceValue(c) ==
    /\ \/ /\ At(c, "clearDiceValue")
          /\ loc' = [loc EXCEPT ![c].step = @ + 1, ![c].possible = <<>>]
          /\ pc' = [pc EXCEPT ![c] = "sim_loop"]
       \/ /\ At(c, "clearDiceValue_break")
          /\ pc' = [pc EXCEPT ![c] = "sim_return"]
          /\ UNCHANGED loc
    /\ CanRLock
    /\ mu' = [mu EXCEPT !.r = @ \cup {c}]
    /\ interpreter' = [interpreter EXCEPT !.dice0_value = <<>>]
    /\ UNCHANGED <<specSource, callerVars, smu, cachedSimulation, counters,
                   req, resp, started>>

\* sim_return leaving the function without s.mu.Unlock().
sim_return_keepsMutex(c) ==
    /\ At(c, "sim_return")
    /\ cachedSimulation' = [loc[c].result EXCEPT !.Steps = Steps(c)]
    /\ loc' = [loc EXCEPT ![c] = NoLocals]
    /\ pc' = [pc EXCEPT ![c] =
                 IF req[c][1] = "spec" THEN "spec_success" ELSE "idle"]
    /\ UNCHANGED <<engineVars, callerVars, mu, smu, counters, req, resp,
                   started>>

\* result.Steps = steps; the result is cached and the server mutex released.
sim_return(c) ==
    /\ At(c, "sim_return")
    /\ cachedSimulation' = [loc[c].result EXCEPT !.Steps = Steps(c)]
    /\ smu' = Nobody
    /\ loc' = [loc EXCEPT ![c] = NoLocals]
    /\ pc' = [pc EXCEPT ![c] =
                 IF req[c][1] = "spec" THEN "spec_success" ELSE "idle"]
    /\ UNCHANGED <<engineVars, callerVars, mu, counters, req, resp, started>>

\* The success response of handleSpec.
spec_success(c) ==
    /\ At(c, "spec_success")
    /\ resp' = [resp EXCEPT ![c] = <<"success", TRUE>>]
    /\ pc' = [pc EXCEPT ![c] = "incCounter"]
    /\ UNCHANGED <<engineVars, callerVars, mu, smu, cachedSimulation,
                   counters, req, loc, started>>

\* s.incCounter("spec_loads"), s.incCounter("ctl_checks") or
\* s.incCounter("queries"), under the server mutex; the handler returns.
incCounter(c) ==
    /\ At(c, "incCounter")
    /\ smu = Nobody
    /\ counters' = CASE req[c][1] = "spec" ->
                          [counters EXCEPT !.spec_loads = @ + 1]
                     [] req[c][1] = "check" ->
                          [counters EXCEPT !.ctl_checks = @ + 1]
                     [] req[c][1] = "query" ->
                          [counters EXCEPT !.queries = @ + 1]
    /\ pc' = [pc EXCEPT ![c] = "idle"]
    /\ UNCHANGED <<engineVars, callerVars, mu, smu, cachedSimulation, req,
                   resp, loc, started>>

\* --- POST /api/check ---

handleCheck(c, property) ==
    /\ At(c, "idle")
    /\ started < MaxRequests
    /\ started' = started + 1
    /\ req' = [req EXCEPT ![c] = <<"check", property>>]
    /\ resp' = [resp EXCEPT ![c] = NoResponse]
    /\ pc' = [pc EXCEPT ![c] = "check_QueryOne"]
    /\ UNCHANGED <<engineVars, callerVars, mu, smu, cachedSimulation,
                   counters, loc>>

\* s.engine.QueryOne(ctx, "check_ctl(Property).") under the 30 s deadline,
\* and the response built from its result: on an error the handler
\* returns without counting the check.
check_QueryOne(c) ==
    /\ At(c, "check_QueryOne")
    /\ CanRLock
    /\ mu' = [mu EXCEPT !.r = @ \cup {c}]
    /\ \E run \in Runs(IF check_ctl(interpreter, req[c][2]) THEN 1 ELSE 0) :
           /\ loc' = [loc EXCEPT ![c].sols = run]
           /\ IF QueryOneReturns(run)[2] # "nil"
              THEN /\ resp' = [resp EXCEPT ![c] =
                                  <<"error", QueryOneReturns(run)[2]>>]
                   /\ pc' = [pc EXCEPT ![c] = "idle"]
              ELSE /\ resp' = [resp EXCEPT ![c] =
                                  <<"satisfied", QueryOneReturns(run)[1]>>]
                   /\ pc' = [pc EXCEPT ![c] = "incCounter"]
    /\ UNCHANGED <<engineVars, callerVars, smu, cachedSimulation, counters,
                   req, started>>

\* --- POST /api/query ---

handleQuery(c, query) ==
    /\ At(c, "idle")
    /\ started < MaxRequests
    /\ started' = started + 1
    /\ req' = [req EXCEPT ![c] = <<"query", query>>]
    /\ resp' = [resp EXCEPT ![c] = NoResponse]
    /\ pc' = [pc EXCEPT ![c] = "query_RawQuery"]
    /\ UNCHANGED <<engineVars, callerVars, mu, smu, cachedSimulation,
                   counters, loc>>

\* s.engine.RawQuery(ctx, req.Query) under the 30 s deadline, and the
\* response built from its result.
query_RawQuery(c) ==
    /\ At(c, "query_RawQuery")
    /\ CanRLock
    /\ mu' = [mu EXCEPT !.r = @ \cup {c}]
    /\ \E run \in Runs(Len(Solve(interpreter, req[c][2]))) :
           /\ loc' = [loc EXCEPT ![c].sols = run]
           /\ IF RawQueryReturns(run)[2] # "nil"
              THEN /\ resp' = [resp EXCEPT ![c] =
                                  <<"error", RawQueryReturns(run)[2]>>]
                   /\ pc' = [pc EXCEPT ![c] = "idle"]
              ELSE /\ resp' = [resp EXCEPT ![c] =
                                  <<"result", RawQueryReturns(run)[1]>>]
                   /\ pc' = [pc EXCEPT ![c] = "incCounter"]
    /\ UNCHANGED <<engineVars, callerVars, smu, cachedSimulation, counters,
                   req, started>>

\* --- the server ---

Next ==
    \E c \in Clients :
        \/ \E source \in Sources : handleSpec(c, source)
        \/ spec_Reset(c)
        \/ spec_LoadSpec(c)
        \/ spec_error(c)
        \/ runAndCacheSimulation(c)
        \/ sim_GetStateMachine(c)
        \/ sim_start(c)
        \/ sim_loop(c)
        \/ setDiceValue(c)
        \/ setDiceValue_assertz(c)
        \/ sim_collect(c)
        \/ sim_pick(c)
        \/ clearDiceValue(c)
        \/ sim_return(c)
        \/ spec_success(c)
        \/ incCounter(c)
        \/ \E property \in Properties : handleCheck(c, property)
        \/ check_QueryOne(c)
        \/ \E query \in RawQueries : handleQuery(c, query)
        \/ query_RawQuery(c)
        \/ Unlock(c)
        \/ RUnlock(c)

Spec == Init /\ [][Next]_vars

\* One client loads A and B in alternation while the other checks
\* properties: the server with a loader c1 and a reader c2.
NextAB ==
    \/ \E source \in {SpecA, SpecB} :
           /\ req["c1"] # <<"spec", source>>
           /\ handleSpec("c1", source)
    \/ \E property \in Properties : handleCheck("c2", property)
    \/ \E c \in Clients :
           \/ spec_Reset(c)
           \/ spec_LoadSpec(c)
           \/ runAndCacheSimulation(c)
           \/ sim_GetStateMachine(c)
           \/ sim_start(c)
           \/ sim_loop(c)
           \/ setDiceValue(c)
           \/ setDiceValue_assertz(c)
           \/ sim_collect(c)
           \/ sim_pick(c)
           \/ clearDiceValue(c)
           \/ sim_return(c)
           \/ spec_success(c)
           \/ incCounter(c)
           \/ check_QueryOne(c)
           \/ Unlock(c)
           \/ RUnlock(c)

SpecAB == Init /\ [][NextAB]_vars

\* ------------------------------------------------------------------------
\* SpecEngine: one caller of the engine loading, resetting and querying in
\* any order, as the tests of pkg/prolog do
\* ------------------------------------------------------------------------

\* Specification C: a text with its own clause for check_ctl/1.
SpecC ==
    << <<"initial", "s0">>,
       <<"check_ctl", <<"atom", "q">>>> >>

EngineSources == {SpecA, SpecB, SpecBad, SpecC}

EngineProperties ==
    Properties \cup {<<"atom", "q">>, <<"ag", <<"atom", "p">>>>}

NextEngine ==
    \/ \E source \in EngineSources : LoadSpec(source)
    \/ Reset
    \/ \E Phi \in EngineProperties : QueryOne(Phi)
    \/ GetSource
    \/ Respond

SpecEngine == Init /\ [][NextEngine]_vars

\* ------------------------------------------------------------------------
\* The simulator called directly, as the tests of the server package do:
\* prolog.New(), engine.LoadSpec(text), s := &Server{engine: engine},
\* s.runAndCacheSimulation(N)
\* ------------------------------------------------------------------------

\* The largest number of steps a direct caller asks for.
MaxSteps == 3

\* xTestSimulationStateGuardBlocksTransitions: the state guard of s0 fails.
SimNever ==
    << <<"initial", "s0">>,
       <<"transition", "s0", "go", "s1">>,
       <<"state_guard", "s0", "never">>,
       <<"rule", "never", "fail">> >>

\* TestSimulationTransitionGuardAllowsTransition: always :- dice0(0.0, 1.0).
SimAlways ==
    << <<"initial", "s0">>,
       <<"transition", "s0", "go", "s1">>,
       <<"transition_guard", "s0", "go", "s1", "always">>,
       <<"rule", "always", 0, 10>> >>

\* The only transition is guarded by half :- dice0(0.2, 0.7).
SimBlocked ==
    << <<"initial", "s0">>,
       <<"transition", "s0", "go", "s1">>,
       <<"transition_guard", "s0", "go", "s1", "half">>,
       <<"rule", "half", 2, 7>> >>

\* A guarded way out of s0 next to an unguarded loop on s0.
SimHalf ==
    << <<"initial", "s0">>,
       <<"transition", "s0", "stay", "s0">>,
       <<"transition", "s0", "go", "s1">>,
       <<"transition_guard", "s0", "go", "s1", "half">>,
       <<"rule", "half", 2, 7>> >>

\* A passing state guard on s0 and a loop: the walk never runs dry.
SimLoop ==
    << <<"initial", "s0">>,
       <<"transition", "s0", "stay", "s0">>,
       <<"state_guard", "s0", "always">>,
       <<"rule", "always", 0, 10>> >>

SimSources == {SimNever, SimAlways, SimBlocked, SimHalf, SimLoop}

\* The dice0(Low, High) goals a caller of the engine asks, in tenths.
DiceGoals == {<<2, 7>>, <<0, 10>>}

\* engine.LoadSpec(text) on the engine prolog.New() has just returned.
LoadTest ==
    /\ interpreter = CoreDb
    /\ specSource = <<>>
    /\ \E source \in SimSources : LoadSpec(source)

\* s.runAndCacheSimulation(N) on a server that has no cached simulation.
TestSimulation(c, N) ==
    /\ At(c, "idle")
    /\ req[c] = NoRequest
    /\ specSource # <<>>
    /\ cachedSimulation = NoSimulation
    /\ req' = [req EXCEPT ![c] = <<"simulate", N>>]
    /\ pc' = [pc EXCEPT ![c] = "runAndCacheSimulation"]
    /\ UNCHANGED <<engineVars, callerVars, mu, smu, cachedSimulation,
                   counters, resp, loc, started>>

\* engine.QueryOne(ctx, "dice0(Low, High).") from another goroutine.
QueryDice0(Low, High) ==
    /\ goal = NoGoal
    /\ frame = NoFrame
    /\ CanRLock
    /\ goal' = <<"dice0", Low, High>>
    /\ answer' = <<dice0(interpreter, Low, High), "nil">>
    /\ UNCHANGED <<interpreter, specSource, frame>>
    /\ UNCHANGED serverVars

NextSim ==
    \/ LoadTest
    \/ \E N \in 1..MaxSteps : TestSimulation("c1", N)
    \/ runAndCacheSimulation("c1")
    \/ sim_GetStateMachine("c1")
    \/ sim_start("c1")
    \/ sim_loop("c1")
    \/ setDiceValue("c1")
    \/ setDiceValue_assertz("c1")
    \/ sim_collect("c1")
    \/ sim_pick("c1")
    \/ clearDiceValue("c1")
    \/ sim_return("c1")
    \/ RUnlock("c1")
    \/ \E g \in DiceGoals : QueryDice0(g[1], g[2])
    \/ Respond

SpecSim == Init /\ [][NextSim]_vars

\* ------------------------------------------------------------------------
\* The server started with a specification file: server.New(specFile),
\* POST /api/spec, POST /api/reset and GET /api/simulate
\* ------------------------------------------------------------------------

\* os.ReadFile(specFile): the text of the file the server is started with.
SpecFileContent == SimAlways

\* specFile == "": the server is started without a file.
NoFile == <<>>

\* The sources posted to the server that was started with the file.
StartupSources == {SpecB, SpecBad}

\* server.New(specFile): a new engine, the file loaded with engine.LoadSpec,
\* and a Server whose cachedSimulation is nil.
InitStartup ==
    /\ interpreter = Exec(CoreDb, SpecFileContent)
    /\ specSource = SpecFileContent
    /\ goal = NoGoal
    /\ answer = NoAnswer
    /\ frame = NoFrame
    /\ ServerInit

\* POST /api/reset on a server whose specFile holds the text file.
handleReset(c, file) ==
    /\ At(c, "idle")
    /\ started < MaxRequests
    /\ started' = started + 1
    /\ req' = [req EXCEPT ![c] = <<"reset", file>>]
    /\ resp' = [resp EXCEPT ![c] = NoResponse]
    /\ pc' = [pc EXCEPT ![c] = "reset_Reset"]
    /\ UNCHANGED <<engineVars, callerVars, mu, smu, cachedSimulation,
                   counters, loc>>

\* s.engine.Reset(), then the test 's.specFile != ""'.
reset_Reset(c) ==
    /\ At(c, "reset_Reset")
    /\ CanLock
    /\ mu' = [mu EXCEPT !.w = c]
    /\ interpreter' = CoreDb
    /\ specSource' = <<>>
    /\ pc' = [pc EXCEPT ![c] =
                 IF req[c][2] # NoFile THEN "reset_LoadSpec"
                                       ELSE "reset_success"]
    /\ UNCHANGED <<callerVars, smu, cachedSimulation, counters, req, resp,
                   loc, started>>

\* s.engine.LoadSpec(string(content)), its result dropped.
reset_LoadSpec(c) ==
    /\ At(c, "reset_LoadSpec")
    /\ CanLock
    /\ mu' = [mu EXCEPT !.w = c]
    /\ specSource' = req[c][2]
    /\ interpreter' = IF ParseOk(req[c][2])
                      THEN Exec(interpreter, req[c][2])
                      ELSE interpreter
    /\ pc' = [pc EXCEPT ![c] = "reset_success"]
    /\ UNCHANGED <<callerVars, smu, cachedSimulation, counters, req, resp,
                   loc, started>>

\* The success response of handleReset; the handler returns.
reset_success(c) ==
    /\ At(c, "reset_success")
    /\ resp' = [resp EXCEPT ![c] = <<"success", TRUE>>]
    /\ pc' = [pc EXCEPT ![c] = "idle"]
    /\ UNCHANGED <<engineVars, callerVars, mu, smu, cachedSimulation,
                   counters, req, loc, started>>

\* GET /api/simulate: the cached result read under the server's read lock,
\* an empty result when the pointer is nil.
handleSimulate(c) ==
    /\ At(c, "idle")
    /\ started < MaxRequests
    /\ started' = started + 1
    /\ smu = Nobody
    /\ req' = [req EXCEPT ![c] = <<"simulation">>]
    /\ resp' = [resp EXCEPT ![c] =
                   <<"simulation",
                     IF cachedSimulation = NoSimulation
                     THEN EmptyResult
                     ELSE cachedSimulation>>]
    /\ UNCHANGED <<engineVars, callerVars, mu, smu, cachedSimulation,
                   counters, pc, loc>>

NextStartup ==
    \E c \in Clients :
        \/ \E source \in StartupSources : handleSpec(c, source)
        \/ spec_Reset(c)
        \/ spec_LoadSpec(c)
        \/ spec_error(c)
        \/ runAndCacheSimulation(c)
        \/ sim_GetStateMachine(c)
        \/ sim_start(c)
        \/ sim_loop(c)
        \/ setDiceValue(c)
        \/ setDiceValue_assertz(c)
        \/ sim_collect(c)
        \/ sim_pick(c)
        \/ clearDiceValue(c)
        \/ sim_return(c)
        \/ spec_success(c)
        \/ incCounter(c)
        \/ handleReset(c, SpecFileContent)
        \/ reset_Reset(c)
        \/ reset_LoadSpec(c)
        \/ reset_success(c)
        \/ handleSimulate(c)
        \/ Unlock(c)
        \/ RUnlock(c)

SpecStartup == InitStartup /\ [][NextStartup]_vars

\* ------------------------------------------------------------------------
\* The projections of the engine: GetStateMachine, GetSequenceDiagram,
\* GetPieChart, GetLineChart, GetProperties, GetDocs, GetActors
\* ------------------------------------------------------------------------

\* The largest number of solutions found before a deadline expires.
MaxFound == 2

\* context.Background(), and the contexts whose deadline expires when the
\* queries made under them have found `after` solutions.
Background == [deadline |-> FALSE, after |-> 0]
Contexts ==
    {Background} \cup {[deadline |-> TRUE, after |-> k] : k \in 0..MaxFound}

\* "for sols.Next()": the solutions a loop enumerates under ctx when the
\* queries before it have found `used` solutions; Next() is false from the
\* expiry on.
Found(sols, ctx, used) ==
    IF ~ctx.deadline
    THEN sols
    ELSE SubSeq(sols, 1,
                IF ctx.after - used < 0 THEN 0
                ELSE IF ctx.after - used < Len(sols) THEN ctx.after - used
                ELSE Len(sols))

\* State machines states from the transitions alone.
GetStateMachine_transitionsOnly(ctx) ==
    /\ goal = NoGoal
    /\ frame = NoFrame
    /\ CanRLock
    /\ goal' = <<"GetStateMachine", ctx>>
    /\ LET T == Found(interpreter.transition, ctx, 0)
           I == Found(interpreter.initial, ctx, Len(T))
           A == Found(interpreter.accepting, ctx, Len(T) + Len(I))
       IN  answer' =
               <<[States |-> {T[i][2] : i \in 1..Len(T)}
                                 \cup {T[i][4] : i \in 1..Len(T)},
                  Transitions |->
                      [i \in 1..Len(T) |-> <<T[i][2], T[i][3], T[i][4]>>],
                  Initial |-> [i \in 1..Len(I) |-> I[i][2]],
                  Accepting |-> [i \in 1..Len(A) |-> A[i][2]]],
                 "nil">>
    /\ UNCHANGED <<interpreter, specSource, frame>>
    /\ UNCHANGED serverVars

\* Engine.GetStateMachine(ctx): the transition/3, initial/1 and accepting/1
\* solutions in enumeration order, and the keys of stateSet.
GetStateMachine(ctx) ==
    /\ goal = NoGoal
    /\ frame = NoFrame
    /\ CanRLock
    /\ goal' = <<"GetStateMachine", ctx>>
    /\ LET T == Found(interpreter.transition, ctx, 0)
           I == Found(interpreter.initial, ctx, Len(T))
           A == Found(interpreter.accepting, ctx, Len(T) + Len(I))
       IN  answer' =
               <<[States |-> {T[i][2] : i \in 1..Len(T)}
                                 \cup {T[i][4] : i \in 1..Len(T)}
                                 \cup {I[i][2] : i \in 1..Len(I)}
                                 \cup {A[i][2] : i \in 1..Len(A)},
                  Transitions |->
                      [i \in 1..Len(T) |-> <<T[i][2], T[i][3], T[i][4]>>],
                  Initial |-> [i \in 1..Len(I) |-> I[i][2]],
                  Accepting |-> [i \in 1..Len(A) |-> A[i][2]]],
                 "nil">>
    /\ UNCHANGED <<interpreter, specSource, frame>>
    /\ UNCHANGED serverVars

\* The solutions of a query over one of the predicates kept in facts.
Facts(D, functor, arity) ==
    SelectSeq(D.facts, LAMBDA c : c[1] = functor /\ Len(c) = arity + 1)

\* The fallback without its switch on the direction: every annotation of
\* the label emits a message Actor -> Peer.
Emitted_alwaysSends(at, Ann) ==
    LET anns == SelectSeq(Ann, LAMBDA a : a[2] = at[4])
    IN  [j \in 1..Len(anns) |->
            [From |-> at[2], To |-> anns[j][4], Label |-> at[4]]]

\* The messages the fallback emits for one actor_transition solution: one
\* for each annotation of its label, in the order of annotations[label],
\* whose direction is send or recv.
Emitted(at, Ann) ==
    LET anns == SelectSeq(Ann, LAMBDA a : a[2] = at[4]
                                          /\ a[3] \in {"send", "recv"})
    IN  [j \in 1..Len(anns) |->
            IF anns[j][3] = "send"
            THEN [From |-> at[2], To |-> anns[j][4], Label |-> at[4]]
            ELSE [From |-> anns[j][4], To |-> at[2], Label |-> at[4]]]

RECURSIVE Synthesized(_, _, _)
\* The messages emitted for the actor_transition solutions from position i
\* on, in emission order.
Synthesized(AT, Ann, i) ==
    IF i > Len(AT)
    THEN <<>>
    ELSE Emitted(AT[i], Ann) \o Synthesized(AT, Ann, i + 1)

RECURSIVE Unseen(_, _, _)
\* The names of the messages from position i on that lifelinesSeen does not
\* hold yet, From before To.
Unseen(msgs, seen, i) ==
    IF i > Len(msgs)
    THEN <<>>
    ELSE LET f == IF msgs[i].From \in seen THEN <<>> ELSE <<msgs[i].From>>
             t == IF msgs[i].To \in seen \cup {msgs[i].From}
                  THEN <<>> ELSE <<msgs[i].To>>
         IN  f \o t \o Unseen(msgs, seen \cup {msgs[i].From, msgs[i].To},
                              i + 1)

\* Engine.GetSequenceDiagram(ctx): the lifeline/1 and message/4 solutions
\* in enumeration order; without any message, the messages synthesized
\* from the msg_annotation/3 and actor_transition/4 solutions.
GetSequenceDiagram(ctx) ==
    /\ goal = NoGoal
    /\ frame = NoFrame
    /\ CanRLock
    /\ goal' = <<"GetSequenceDiagram", ctx>>
    /\ LET L == Found(Facts(interpreter, "lifeline", 1), ctx, 0)
           M == Found(Facts(interpreter, "message", 4), ctx, Len(L))
           Ann == Found(Facts(interpreter, "msg_annotation", 3), ctx,
                        Len(L) + Len(M))
           AT == Found(Facts(interpreter, "actor_transition", 4), ctx,
                       Len(L) + Len(M) + Len(Ann))
           S == Synthesized(AT, Ann, 1)
           Lifelines == [i \in 1..Len(L) |-> L[i][2]]
       IN  answer' =
               IF Len(M) > 0
               THEN <<[Lifelines |-> Lifelines,
                       Messages |->
                           [i \in 1..Len(M) |->
                               [Seq |-> M[i][2], From |-> M[i][3],
                                To |-> M[i][4], Label |-> M[i][5]]]],
                      "nil">>
               ELSE IF Len(Ann) > 0
               THEN <<[Lifelines |-> Lifelines \o Unseen(S, {}, 1),
                       Messages |->
                           [i \in 1..Len(S) |->
                               [Seq |-> i, From |-> S[i].From,
                                To |-> S[i].To, Label |-> S[i].Label]]],
                      "nil">>
               ELSE <<[Lifelines |-> Lifelines, Messages |-> <<>>], "nil">>
    /\ UNCHANGED <<interpreter, specSource, frame>>
    /\ UNCHANGED serverVars

\* termToInt of a number written in tenths, as the values of pie_slice/2
\* and line_point/3 are: Go's int(t) truncates towards zero.
termToInt(t) == IF t >= 0 THEN t \div 10 ELSE -((-t) \div 10)

\* Engine.GetPieChart(ctx): the pie_slice/2 solutions.
GetPieChart(ctx) ==
    /\ goal = NoGoal
    /\ frame = NoFrame
    /\ CanRLock
    /\ goal' = <<"GetPieChart", ctx>>
    /\ LET P == Found(Facts(interpreter, "pie_slice", 2), ctx, 0)
       IN  answer' =
               <<[i \in 1..Len(P) |->
                     [Label |-> P[i][2], Value |-> termToInt(P[i][3])]],
                 "nil">>
    /\ UNCHANGED <<interpreter, specSource, frame>>
    /\ UNCHANGED serverVars

\* Engine.GetLineChart(ctx): the line_point/3 solutions.
GetLineChart(ctx) ==
    /\ goal = NoGoal
    /\ frame = NoFrame
    /\ CanRLock
    /\ goal' = <<"GetLineChart", ctx>>
    /\ LET P == Found(Facts(interpreter, "line_point", 3), ctx, 0)
       IN  answer' =
               <<[i \in 1..Len(P) |->
                     [Series |-> P[i][2], X |-> termToInt(P[i][3]),
                      Y |-> termToInt(P[i][4])]],
                 "nil">>
    /\ UNCHANGED <<interpreter, specSource, frame>>
    /\ UNCHANGED serverVars

\* GetProperties passing the error of the iterator on to its caller.
GetProperties_returnsErr(ctx) ==
    /\ goal = NoGoal
    /\ frame = NoFrame
    /\ CanRLock
    /\ goal' = <<"GetProperties", ctx>>
    /\ LET P == Found(Facts(interpreter, "property", 3), ctx, 0)
       IN  answer' =
               <<[i \in 1..Len(P) |->
                     [Name |-> P[i][2], Description |-> P[i][3],
                      Formula |-> P[i][4]]],
                 IF Len(P) < Len(Facts(interpreter, "property", 3))
                 THEN "timeout" ELSE "nil">>
    /\ UNCHANGED <<interpreter, specSource, frame>>
    /\ UNCHANGED serverVars

\* Engine.GetProperties(ctx): the property/3 solutions.
GetProperties(ctx) ==
    /\ goal = NoGoal
    /\ frame = NoFrame
    /\ CanRLock
    /\ goal' = <<"GetProperties", ctx>>
    /\ LET P == Found(Facts(interpreter, "property", 3), ctx, 0)
       IN  answer' =
               <<[i \in 1..Len(P) |->
                     [Name |-> P[i][2], Description |-> P[i][3],
                      Formula |-> P[i][4]]],
                 "nil">>
    /\ UNCHANGED <<interpreter, specSource, frame>>
    /\ UNCHANGED serverVars

\* Engine.GetDocs(ctx): the doc/2 solutions.
GetDocs(ctx) ==
    /\ goal = NoGoal
    /\ frame = NoFrame
    /\ CanRLock
    /\ goal' = <<"GetDocs", ctx>>
    /\ LET P == Found(Facts(interpreter, "doc", 2), ctx, 0)
       IN  answer' =
               <<[i \in 1..Len(P) |-> [Topic |-> P[i][2],
                                        Content |-> P[i][3]]],
                 "nil">>
    /\ UNCHANGED <<interpreter, specSource, frame>>
    /\ UNCHANGED serverVars

RECURSIVE Named(_, _, _)
\* The names of the solutions from position i on that are not empty and not
\* in seen, each once.
Named(sols, seen, i) ==
    IF i > Len(sols)
    THEN <<>>
    ELSE IF sols[i][2] = "" \/ sols[i][2] \in seen
         THEN Named(sols, seen, i + 1)
         ELSE <<sols[i][2]>> \o Named(sols, seen \cup {sols[i][2]}, i + 1)

\* Engine.GetActors(ctx): the names of the actor/1 solutions, then those of
\* the actor/2 solutions, without repetition.
GetActors(ctx) ==
    /\ goal = NoGoal
    /\ frame = NoFrame
    /\ CanRLock
    /\ goal' = <<"GetActors", ctx>>
    /\ LET A1 == Found(Facts(interpreter, "actor", 1), ctx, 0)
           A2 == Found(Facts(interpreter, "actor", 2), ctx, Len(A1))
       IN  answer' = <<Named(A1 \o A2, {}, 1), "nil">>
    /\ UNCHANGED <<interpreter, specSource, frame>>
    /\ UNCHANGED serverVars

\* Charts, documentation, actors and named properties.
ViewCharts ==
    << <<"pie_slice", "ok", 25>>,
       <<"pie_slice", "failed", 5>>,
       <<"line_point", "load", 10, 37>>,
       <<"doc", "overview", "text">>,
       <<"actor", "client">>,
       <<"actor", "server", "idle">>,
       <<"actor", "client", "idle">> >>

\* A property that is neither checked nor failed: *bool nil, no error.
Unchecked == [Satisfied |-> "nil", Error |-> ""]

\* The formula texts of the property/3 facts, and the term the interpreter
\* parses each of them to; the last one has no closing parentheses.
ParseError == <<"syntax error">>
ParseFormula(text) ==
    CASE text = "ef(atom(p))" -> <<"ef", <<"atom", "p">>>>
      [] text = "atom(p)" -> <<"atom", "p">>
      [] text = "ag(atom(p))" -> <<"ag", <<"atom", "p">>>>
      [] OTHER -> ParseError

\* A model in which p is reachable and does not hold initially, and three
\* named properties, the second with a formula text that does not parse.
ViewProperties ==
    << <<"initial", "s0">>,
       <<"transition", "s0", "a", "s1">>,
       <<"prop", "s1", "p">>,
       <<"property", "reach", "p can be reached", "ef(atom(p))">>,
       <<"property", "broken", "p holds for ever", "ag(atom(p">>,
       <<"property", "now", "p holds", "atom(p)">> >>

\* A model in which p holds for ever, with two named properties.
ViewSafe ==
    << <<"initial", "s0">>,
       <<"transition", "s0", "a", "s0">>,
       <<"prop", "s0", "p">>,
       <<"property", "safe", "p holds for ever", "ag(atom(p))">>,
       <<"property", "now", "p holds", "atom(p)">> >>

\* --- GET /api/properties ---

handleProperties(c) ==
    /\ At(c, "idle")
    /\ started < MaxRequests
    /\ started' = started + 1
    /\ req' = [req EXCEPT ![c] = <<"properties">>]
    /\ resp' = [resp EXCEPT ![c] = NoResponse]
    /\ pc' = [pc EXCEPT ![c] = "props_GetProperties"]
    /\ UNCHANGED <<engineVars, callerVars, mu, smu, cachedSimulation,
                   counters, loc>>

\* s.engine.GetProperties(ctx) under the 30 s deadline of the request, then
\* results := make([]PropertyResult, ...) with the name, description and
\* formula of each property found.
props_GetProperties(c) ==
    /\ At(c, "props_GetProperties")
    /\ CanRLock
    /\ mu' = [mu EXCEPT !.r = @ \cup {c}]
    /\ \E ctx \in Contexts :
       LET P == Found(Facts(interpreter, "property", 3), ctx, 0)
       IN  loc' = [loc EXCEPT
               ![c].results =
                   [k \in 1..Len(P) |->
                       [Name |-> P[k][2], Description |-> P[k][3],
                        Formula |-> P[k][4],
                        Satisfied |-> Unchecked.Satisfied,
                        Error |-> Unchecked.Error]],
               ![c].i = 1]
    /\ pc' = [pc EXCEPT ![c] = "props_QueryOne"]
    /\ UNCHANGED <<engineVars, callerVars, smu, cachedSimulation, counters,
                   req, resp, started>>

\* The loop of handleProperties leaving at the first error.
props_QueryOne_stopsAtError(c) ==
    /\ At(c, "props_QueryOne")
    /\ loc[c].i <= Len(loc[c].results)
    /\ CanRLock
    /\ mu' = [mu EXCEPT !.r = @ \cup {c}]
    /\ LET i == loc[c].i
           Phi == ParseFormula(loc[c].results[i].Formula)
       IN  IF Phi = ParseError
           THEN loc' = [loc EXCEPT ![c].results[i].Error = ParseError[1],
                                   ![c].i = Len(loc[c].results) + 1]
           ELSE \E run \in Runs(IF check_ctl(interpreter, Phi)
                                THEN 1 ELSE 0) :
                    loc' = [loc EXCEPT
                        ![c].sols = run,
                        ![c].results[i].Error =
                            IF QueryOneReturns(run)[2] # "nil"
                            THEN QueryOneReturns(run)[2] ELSE @,
                        ![c].results[i].Satisfied =
                            IF QueryOneReturns(run)[2] # "nil" THEN @
                            ELSE IF QueryOneReturns(run)[1] THEN "true"
                            ELSE "false",
                        ![c].i = i + 1]
    /\ UNCHANGED <<engineVars, callerVars, smu, cachedSimulation, counters,
                   pc, req, resp, started>>

\* One round of the loop over the properties:
\* s.engine.QueryOne(ctx, "check_ctl(" + prop.Formula + ")."), its error or
\* its answer stored in results[i].
props_QueryOne(c) ==
    /\ At(c, "props_QueryOne")
    /\ loc[c].i <= Len(loc[c].results)
    /\ CanRLock
    /\ mu' = [mu EXCEPT !.r = @ \cup {c}]
    /\ LET i == loc[c].i
           Phi == ParseFormula(loc[c].results[i].Formula)
       IN  IF Phi = ParseError
           THEN loc' = [loc EXCEPT ![c].results[i].Error = ParseError[1],
                                   ![c].i = i + 1]
           ELSE \E run \in Runs(IF check_ctl(interpreter, Phi)
                                THEN 1 ELSE 0) :
                    loc' = [loc EXCEPT
                        ![c].sols = run,
                        ![c].results[i].Error =
                            IF QueryOneReturns(run)[2] # "nil"
                            THEN QueryOneReturns(run)[2] ELSE @,
                        ![c].results[i].Satisfied =
                            IF QueryOneReturns(run)[2] # "nil" THEN @
                            ELSE IF QueryOneReturns(run)[1] THEN "true"
                            ELSE "false",
                        ![c].i = i + 1]
    /\ UNCHANGED <<engineVars, callerVars, smu, cachedSimulation, counters,
                   pc, req, resp, started>>

\* The response of handleProperties: success and the results.
props_success(c) ==
    /\ At(c, "props_QueryOne")
    /\ loc[c].i > Len(loc[c].results)
    /\ resp' = [resp EXCEPT ![c] = <<"properties", loc[c].results>>]
    /\ loc' = [loc EXCEPT ![c] = NoLocals]
    /\ pc' = [pc EXCEPT ![c] = "idle"]
    /\ UNCHANGED <<engineVars, callerVars, mu, smu, cachedSimulation,
                   counters, req, started>>

\* Two messages written in the order 2, 1.
ViewMessages ==
    << <<"lifeline", "client">>,
       <<"lifeline", "server">>,
       <<"message", 2, "server", "client", "pong">>,
       <<"message", 1, "client", "server", "ping">> >>

\* msg_annotation(send_prompt, send, server),
\* msg_annotation(receive_response, recv, server) and the actor_transition/4
\* clauses of client.
ViewFallback ==
    << <<"msg_annotation", "send_prompt", "send", "server">>,
       <<"msg_annotation", "receive_response", "recv", "server">>,
       <<"actor_transition", "client", "idle", "send_prompt", "waiting">>,
       <<"actor_transition", "client", "waiting", "receive_response",
         "idle">> >>

\* A label annotated twice, one annotated with another direction, and one
\* without annotation.
ViewAnnotations ==
    << <<"msg_annotation", "ping", "both", "server">>,
       <<"msg_annotation", "pong", "recv", "server">>,
       <<"msg_annotation", "pong", "send", "logger">>,
       <<"actor_transition", "client", "idle", "ping", "waiting">>,
       <<"actor_transition", "client", "waiting", "pong", "idle">>,
       <<"actor_transition", "client", "idle", "quit", "done">> >>

\* initial(s0). transition(s0, a, s1). transition(s1, b, s2).
ViewChain ==
    << <<"initial", "s0">>,
       <<"transition", "s0", "a", "s1">>,
       <<"transition", "s1", "b", "s2">> >>

\* An accepting state and an initial state that no transition mentions.
ViewApart ==
    << <<"initial", "s0">>,
       <<"transition", "s1", "a", "s1">>,
       <<"accepting", "s2">> >>

\* No transition, one initial state.
ViewInitialOnly == << <<"initial", "s0">> >>

ViewSources ==
    {ViewChain, ViewApart, ViewInitialOnly, SpecBad, ViewMessages,
     ViewFallback, ViewAnnotations, ViewCharts, ViewProperties}

\* A caller of the engine loads a text or resets the engine: each takes the
\* write lock for the whole call.
LoadView == mu = Unlocked /\ \E source \in ViewSources : LoadSpec(source)
ResetView == mu = Unlocked /\ Reset

NextViews ==
    \/ LoadView
    \/ ResetView
    \/ \E ctx \in Contexts : GetStateMachine(ctx)
    \/ \E ctx \in Contexts : GetSequenceDiagram(ctx)
    \/ \E ctx \in Contexts : GetPieChart(ctx)
    \/ \E ctx \in Contexts : GetLineChart(ctx)
    \/ \E ctx \in Contexts : GetProperties(ctx)
    \/ \E ctx \in Contexts : GetDocs(ctx)
    \/ \E ctx \in Contexts : GetActors(ctx)
    \/ Respond

SpecViews == Init /\ [][NextViews]_vars

\* --- GET /api/metrics, and the server under a fair scheduler ---

\* handleMetrics: s.getCounters() and s.getTimeSeries(), each under the
\* read lock of the server mutex; the response holds the counters.
handleMetrics(c) ==
    /\ At(c, "idle")
    /\ started < MaxRequests
    /\ started' = started + 1
    /\ smu = Nobody
    /\ req' = [req EXCEPT ![c] = <<"metrics">>]
    /\ resp' = [resp EXCEPT ![c] = <<"metrics", counters>>]
    /\ pc' = [pc EXCEPT ![c] = "getTimeSeries"]
    /\ UNCHANGED <<engineVars, callerVars, mu, smu, cachedSimulation,
                   counters, loc>>

getTimeSeries(c) ==
    /\ At(c, "getTimeSeries")
    /\ smu = Nobody
    /\ pc' = [pc EXCEPT ![c] = "idle"]
    /\ UNCHANGED <<engineVars, callerVars, mu, smu, cachedSimulation,
                   counters, req, resp, loc, started>>

\* The number of requests served under the fair scheduler.
LiveRequests == 2

\* A request arrives at goroutine c.
Arrives(c) ==
    /\ started < LiveRequests
    /\ \/ handleSpec(c, SpecB)
       \/ handleReset(c, SpecFileContent)
       \/ handleSimulate(c)
       \/ handleMetrics(c)
       \/ handleCheck(c, <<"atom", "p">>)

\* The next step of the handler goroutine c is running.
Continues(c) ==
    \/ spec_Reset(c)
    \/ spec_LoadSpec(c)
    \/ runAndCacheSimulation(c)
    \/ sim_GetStateMachine(c)
    \/ sim_start(c)
    \/ sim_loop(c)
    \/ setDiceValue(c)
    \/ setDiceValue_assertz(c)
    \/ sim_collect(c)
    \/ sim_pick(c)
    \/ clearDiceValue(c)
    \/ sim_return(c)
    \/ spec_success(c)
    \/ incCounter(c)
    \/ reset_Reset(c)
    \/ reset_LoadSpec(c)
    \/ reset_success(c)
    \/ getTimeSeries(c)
    \/ check_QueryOne(c)
    \/ Unlock(c)
    \/ RUnlock(c)

NextLive == \E c \in Clients : Arrives(c) \/ Continues(c)

\* The Go scheduler runs every goroutine that can take a step.
SpecLive ==
    /\ InitStartup
    /\ [][NextLive]_vars
    /\ \A c \in Clients : WF_vars(Continues(c))

\* --- the walk of the simulator ---

\* One initial state and a chain of two transitions.
SimChain ==
    << <<"initial", "s0">>,
       <<"transition", "s0", "a", "s1">>,
       <<"transition", "s1", "b", "s2">> >>

WalkSources == {SimChain, SimHalf}

LoadWalk ==
    /\ interpreter = CoreDb
    /\ specSource = <<>>
    /\ \E source \in WalkSources : LoadSpec(source)

\* s.runAndCacheSimulation(N) of one goroutine on a loaded specification.
NextWalk ==
    \/ LoadWalk
    \/ \E N \in 1..MaxSteps : TestSimulation("c1", N)
    \/ runAndCacheSimulation("c1")
    \/ sim_GetStateMachine("c1")
    \/ sim_start("c1")
    \/ sim_loop("c1")
    \/ setDiceValue("c1")
    \/ setDiceValue_assertz("c1")
    \/ sim_collect("c1")
    \/ sim_pick("c1")
    \/ clearDiceValue("c1")
    \/ sim_return("c1")
    \/ RUnlock("c1")

SpecWalk == Init /\ [][NextWalk]_vars

\* --- Engine.Query and Engine.RawQuery ---

\* Query: one map per solution found, returned with sols.Err().
QueryReturns(run) ==
    <<[i \in 1..run.found |-> [solution |-> "true"]], run.err>>

\* Engine.Query(ctx, query) of a goal p(X...).
Query(query) ==
    /\ goal = NoGoal
    /\ frame = NoFrame
    /\ \E run \in Runs(Len(Solve(interpreter, query))) :
           /\ goal' = <<"Query", query>>
           /\ answer' = QueryReturns(run)
    /\ UNCHANGED <<interpreter, specSource, frame>>
    /\ UNCHANGED serverVars

\* Engine.RawQuery(ctx, query) of a goal p(X...).
RawQuery(query) ==
    /\ goal = NoGoal
    /\ frame = NoFrame
    /\ \E run \in Runs(Len(Solve(interpreter, query))) :
           /\ goal' = <<"RawQuery", query>>
           /\ answer' = RawQueryReturns(run)
    /\ UNCHANGED <<interpreter, specSource, frame>>
    /\ UNCHANGED serverVars

\* The goals sent to Query and RawQuery.
QueryGoals == RawQueries \cup {<<"transition">>, <<"prop">>}

\* One caller of the engine loading specifications and querying them.
NextQuery ==
    \/ \E source \in Sources : LoadSpec(source)
    \/ Reset
    \/ \E query \in QueryGoals : Query(query)
    \/ \E query \in QueryGoals : RawQuery(query)
    \/ Respond

SpecQuery == Init /\ [][NextQuery]_vars

\* The specifications loaded while properties are checked.
PropSources == {ViewProperties, ViewSafe, SpecBad}

LoadProps == mu = Unlocked /\ \E source \in PropSources : LoadSpec(source)

\* GET /api/properties of one client, between loads and resets of the engine.
NextProps ==
    \/ LoadProps
    \/ ResetView
    \/ handleProperties("c1")
    \/ props_GetProperties("c1")
    \/ props_QueryOne("c1")
    \/ props_success("c1")
    \/ RUnlock("c1")

SpecProps == Init /\ [][NextProps]_vars

\* ------------------------------------------------------------------------
\* Path semantics of CTL over the loaded Kripke structure
\* ------------------------------------------------------------------------

\* The longest path looked at has one state more than there are states, so
\* that it repeats a state.
PathLen == Cardinality(States) + 1

Edge(D, s, t) ==
    \E i \in 1..Len(D.transition) : D.transition[i][2] = s /\ D.transition[i][4] = t

Succ(D, s) == {t \in States : Edge(D, s, t)}

\* The paths of k states that start in s.
PathsFrom(D, s, k) ==
    {pi \in [1..k -> States] :
        /\ pi[1] = s
        /\ \A i \in 1..(k - 1) : Edge(D, pi[i], pi[i + 1])}

\* The states reachable from s by zero or more transitions.
Reachable(D, s) ==
    UNION {{pi[k] : pi \in PathsFrom(D, s, k)} : k \in 1..Cardinality(States)}

\* The formula of the pending query, its operator, and the state it is
\* evaluated in (the initial state of the loaded specification).
GoalIs(op) == goal # NoGoal /\ goal[2][1] = op
S0 == interpreter.initial[1][2]
Holds == answer[1]

\* Some state of the path pi occurs on it twice / the path is a cycle-free
\* walk that closes a cycle with its last state.
ClosesCycle(pi, k) == \E j \in 1..(k - 1) : pi[j] = pi[k]

\* S0 lies on a cycle of the loaded structure.
OnCycle(D, s) == \E t \in Succ(D, s) : s \in Reachable(D, t)

Branching(D) == \E s \in States : Cardinality(Succ(D, s)) >= 2

\* ------------------------------------------------------------------------
\* Claims C5 .. C10: the CTL operators (specification SpecCTL)
\* ------------------------------------------------------------------------

\* C5: AG/EF duality.  In every finite model, at every state and for every
\* formula Phi, ag(Phi) holds iff not(ef(not(Phi))) holds.
C5_AgEfDuality ==
    GoalIs("ag") =>
        (Holds = ctl_sat(interpreter, S0, <<"not", <<"ef", <<"not", goal[2][2]>>>>>>))

\* C5 witness: ag(Phi) has been answered true on a branching model with a
\* cycle through the state it was asked in.
C5_Witness ==
    /\ GoalIs("ag") /\ Holds
    /\ Branching(interpreter) /\ OnCycle(interpreter, S0)
    /\ Cardinality(Reachable(interpreter, S0)) = 3

\* C6: ef(Phi) holds at S iff some state reachable from S by zero or more
\* transitions satisfies Phi; with a cycle and no such state the answer is
\* false.
C6_EfIsReachability ==
    GoalIs("ef") =>
        (Holds = (\E t \in Reachable(interpreter, S0) :
                      ctl_sat(interpreter, t, goal[2][2])))

\* C6 witness: on a model with a cycle through S, where prop/2 has clauses but
\* no reachable state satisfies p, ef(atom(p)) has been answered false.
C6_Witness ==
    /\ GoalIs("ef") /\ goal[2][2] = <<"atom", "p">> /\ ~Holds
    /\ OnCycle(interpreter, S0)
    /\ \E i \in 1..Len(interpreter.prop) : interpreter.prop[i][3] = "p"

\* C7: eg(Phi) holds at S iff some path from S runs through Phi-states only
\* and returns to a state already on it; it is false at a Phi-state without
\* successors.
C7_EgIsLasso ==
    GoalIs("eg") =>
        /\ Holds =
              (\E k \in 2..PathLen : \E pi \in PathsFrom(interpreter, S0, k) :
                   /\ \A i \in 1..k : ctl_sat(interpreter, pi[i], goal[2][2])
                   /\ ClosesCycle(pi, k))
        /\ (Succ(interpreter, S0) = {} => ~Holds)

\* C7 witness: eg(Phi) has been answered false at a state that satisfies Phi
\* and lies on a cycle (the cycle leaves Phi).
C7_Witness ==
    /\ GoalIs("eg") /\ ~Holds
    /\ ctl_sat(interpreter, S0, goal[2][2])
    /\ OnCycle(interpreter, S0)

C10_EuIsPath ==
    GoalIs("eu") =>
        (Holds =
            (\E k \in 1..PathLen : \E pi \in PathsFrom(interpreter, S0, k) :
                 /\ ctl_sat(interpreter, pi[k], goal[2][3])
                 /\ \A i \in 1..(k - 1) : ctl_sat(interpreter, pi[i], goal[2][2])))

\* C10 witness: eu(Phi, Psi) has been answered true at a state on a cycle,
\* where Psi holds only two transitions away.
C10_Witness ==
    /\ GoalIs("eu") /\ Holds
    /\ OnCycle(interpreter, S0)
    /\ ~ctl_sat(interpreter, S0, goal[2][3])
    /\ \A t \in Succ(interpreter, S0) : ~ctl_sat(interpreter, t, goal[2][3])

\* ------------------------------------------------------------------------
\* Claim C4: the visited list bounds the recursion (specification SpecCalls)
\* ------------------------------------------------------------------------

\* The states of the loaded Kripke structure: the ends of every transition
\* and every initial state.
KripkeStates(D) ==
    {D.transition[i][2] : i \in 1..Len(D.transition)}
        \cup {D.transition[i][4] : i \in 1..Len(D.transition)}
        \cup {D.initial[i][2] : i \in 1..Len(D.initial)}

NoDuplicates(seq) == \A i, j \in 1..Len(seq) : i # j => seq[i] # seq[j]

\* C4: in every call of ctl_ef, ctl_af, ctl_eg, ctl_ag, ctl_eu and ctl_au the
\* Visited list holds no state twice and only states of the structure, so the
\* depth of the recursion (one call more than Visited is long) is at most the
\* number of states plus one.
C4_VisitedBoundsDepth ==
    frame # NoFrame =>
        /\ NoDuplicates(frame[4])
        /\ Range(frame[4]) \subseteq KripkeStates(interpreter)
        /\ Len(frame[4]) + 1 <= Cardinality(KripkeStates(interpreter)) + 1

\* C4 witness: on a cycle through all three states the recursion has come
\* back to the state it started in, with every state on the Visited list.
C4_Witness ==
    /\ frame # NoFrame
    /\ Len(frame[4]) = Cardinality(States)
    /\ member(frame[2], frame[4])
    /\ frame[1] \in {"af", "ag"}

\* ------------------------------------------------------------------------
\* Claims about the server: C1, C2, C3
\* ------------------------------------------------------------------------

\* A check whose answer has been computed and whose read lock is still held:
\* the database is the one the answer was computed from.
Checked(c) ==
    /\ c \in mu.r
    /\ req[c][1] = "check"
    /\ resp[c][1] = "satisfied"

\* sat(S0, Phi) for every initial state S0 of database D.
AllInitialSat(D, Phi) ==
    \A i \in 1..Len(D.initial) : ctl_sat(D, D.initial[i][2], Phi)

\* C1: check_ctl(Phi) returns true iff ctl_sat(S0, Phi) holds for every
\* initial state S0: false when only one of two initial states satisfies
\* Phi, and true when there is no initial state.
C1_CheckIsUniversal ==
    \A c \in Clients :
        Checked(c) => (resp[c][2] = AllInitialSat(interpreter, req[c][2]))

\* The database that holds one source alone.
Alone(source) == Exec(CoreDb, source)

\* C2: while a client loads A and B in alternation, every concurrent check
\* returns what A alone or B alone would give; once a load has completed no
\* reader sees the database empty or partially loaded.
C2_ReadersSeeAOrB ==
    \A c \in Clients :
        (Checked(c) /\ counters.spec_loads >= 1) =>
            resp[c][2] \in {check_ctl(Alone(SpecA), req[c][2]),
                            check_ctl(Alone(SpecB), req[c][2])}

\* C3: a load that fails leaves the engine as it was before the call: the
\* clause database and the retained source text are unchanged by the
\* LoadSpec step that ends in an error.
C3_FailedLoadKeepsEngine ==
    [][\A c \in Clients :
          (pc[c] = "spec_LoadSpec" /\ pc'[c] = "spec_error") =>
              (interpreter' = interpreter /\ specSource' = specSource)]_vars

\* ------------------------------------------------------------------------
\* Claims about deadlines and errors: C11, C12
\* ------------------------------------------------------------------------

\* The goroutine is inside QueryOne or RawQuery for a check or a raw query,
\* with the result computed and the read lock still held.
Answered(c) ==
    /\ c \in mu.r
    /\ req[c][1] \in {"check", "query"}
    /\ resp[c] # NoResponse

\* The deadline expired before the goal completed.
CutOff(c) == loc[c].sols.err = "timeout"

\* A negative answer: satisfied = false from QueryOne, "false" from RawQuery.
Negative(c) == resp[c] \in {<<"satisfied", FALSE>>, <<"result", "false">>}

\* C11: when the deadline expires before the goal completes the caller
\* receives a timeout error, never a negative answer: RawQuery does not
\* return "false" and QueryOne does not return (false, nil).
C11_TimeoutIsNeverNegative ==
    \A c \in Clients : (Answered(c) /\ CutOff(c)) => ~Negative(c)

\* The step in which a query of c ends in an error.
EndsInError(c) == resp[c] = NoResponse /\ resp'[c][1] = "error"

Fresh ==
    /\ specSource = <<>>
    /\ Len(interpreter.transition) = 0
    /\ Len(interpreter.initial) = 0
    /\ Len(interpreter.accepting) = 0
    /\ \A Phi \in EngineProperties :
           check_ctl(interpreter, Phi) = check_ctl_core(CoreDb, Phi)
    /\ \A source \in EngineSources :
           Exec(interpreter, source) = Exec(CoreDb, source)

\* C13: after Reset(), whatever loads and queries preceded it, the engine
\* is equivalent to a freshly constructed one: no user predicate has a
\* solution, GetSource returns the empty string, and the core library
\* works as on a new engine.
C13_ResetIsFresh ==
    \A c \in Clients : (mu.w = c /\ pc[c] = "spec_LoadSpec") => Fresh

\* C13 witness: a client has just reset the engine, the write lock not yet
\* released, after an earlier load had completed.
C13_Witness ==
    \E c \in Clients :
        /\ mu.w = c
        /\ pc[c] = "spec_LoadSpec"
        /\ counters.spec_loads >= 1

\* The engine holds a source that loaded successfully.
Loaded(source) == specSource = source /\ ParseOk(source)

C15_SourceRoundTrip ==
    [][/\ \A source \in EngineSources :
             (LoadSpec(source) /\ ParseOk(source)) => specSource' = source
       /\ GetSource => answer'[1] = specSource
       /\ specSource' # specSource =>
             (Reset \/ \E source \in EngineSources : LoadSpec(source))]_vars

\* C15 witness: B was loaded after another source and GetSource has
\* returned the text of B.
C15_Witness ==
    /\ goal = <<"GetSource">>
    /\ answer = <<SpecB, "nil">>
    /\ Loaded(SpecB)
    /\ interpreter # Alone(SpecB)

\* C16: a specification cannot redefine the helper library: after a load
\* of a text with its own clauses for check_ctl/1 the goal check_ctl(Phi)
\* is still answered as the core library defines it.
C16_CoreIsNotRedefined ==
    goal[1] = "check_ctl" => answer[1] = check_ctl_core(interpreter, goal[2])

\* The transitions of sm that leave a current actor state.
Leaving(sm, cs) ==
    {sm.Transitions[i] : i \in {j \in 1..Len(sm.Transitions) :
        \E a \in DOMAIN cs : cs[a] = sm.Transitions[j][2]}}

\* state_guard(F, _) has a solution; state_guard(F, G), call(G) succeeds.
HasStateGuard(D, F) ==
    \E i \in 1..Len(D.state_guard) : D.state_guard[i][2] = F
StateGuardHolds(D, F) ==
    \E i \in 1..Len(D.state_guard) :
        D.state_guard[i][2] = F /\ call(D, D.state_guard[i][3])

\* transition_guard(F, L, T, _) has a solution; transition_guard(F, L, T, G),
\* call(G) succeeds.
HasTransitionGuard(D, t) ==
    \E i \in 1..Len(D.transition_guard) :
        <<D.transition_guard[i][2], D.transition_guard[i][3],
          D.transition_guard[i][4]>> = <<t[2], t[3], t[4]>>
TransitionGuardHolds(D, t) ==
    \E i \in 1..Len(D.transition_guard) :
        /\ <<D.transition_guard[i][2], D.transition_guard[i][3],
             D.transition_guard[i][4]>> = <<t[2], t[3], t[4]>>
        /\ call(D, D.transition_guard[i][5])

EnablingRule(D, t) ==
    /\ ~HasStateGuard(D, t[2]) \/ StateGuardHolds(D, t[2])
    /\ ~HasTransitionGuard(D, t) \/ TransitionGuardHolds(D, t)

\* The event the simulation has recorded last, as a transition.
LastFired(c) ==
    LET e == loc[c].result.Timeline[Len(loc[c].result.Timeline)]
    IN  <<"transition", e.From, e.Label, e.To>>

\* C17: at each step of the simulation a transition leaving a current actor
\* state is in the enabled set iff its state has no guard or the guard
\* succeeds, and the transition has no guard or that guard succeeds; a
\* transition without guards is always enabled, and the transition that is
\* fired passes its guards under the dice value of the step.
C17_EnablingRule ==
    \A c \in Clients :
        /\ pc[c] = "sim_pick" =>
              /\ {loc[c].possible[i] : i \in 1..Len(loc[c].possible)} =
                     {t \in Leaving(loc[c].sm, loc[c].currentStates) :
                         EnablingRule(interpreter, t)}
              /\ \A t \in Leaving(loc[c].sm, loc[c].currentStates) :
                     (~HasStateGuard(interpreter, t[2])
                          /\ ~HasTransitionGuard(interpreter, t))
                     => \E i \in 1..Len(loc[c].possible) :
                            loc[c].possible[i] = t
        /\ pc[c] = "clearDiceValue" => EnablingRule(interpreter, LastFired(c))

\* C17 witness: of the two transitions leaving s0 the unguarded one is
\* enabled and the one whose guard fails under the sampled value is not.
C17_Witness ==
    /\ pc["c1"] = "sim_pick"
    /\ specSource = SimHalf
    /\ loc["c1"].dice = 7
    /\ loc["c1"].possible = << <<"transition", "s0", "stay", "s0">> >>

\* A direct call of runAndCacheSimulation(N) by c has returned: both of its
\* return statements are preceded by the assignment of s.cachedSimulation.
SimulationDone(c) ==
    /\ pc[c] = "idle"
    /\ req[c][1] = "simulate"

\* C18: runAndCacheSimulation(N) records at most N events, one for each
\* step up to the first step whose enabled set is empty, where it stops;
\* for initial(s0), transition(s0, go, s1) and an always-true transition
\* guard the cached result holds exactly 1 event, whatever N >= 1 is.
C18_StopsWhenNothingIsEnabled ==
    \A c \in Clients :
        /\ SimulationDone(c) =>
              /\ Len(cachedSimulation.Timeline) <= req[c][2]
              /\ cachedSimulation.Total = Len(cachedSimulation.Timeline)
              /\ \A i \in 1..Len(cachedSimulation.Timeline) :
                     cachedSimulation.Timeline[i].Step = i - 1
              /\ specSource = SimAlways =>
                     Len(cachedSimulation.Timeline) = 1
        /\ (req[c][1] = "simulate" /\ pc[c] = "sim_loop") =>
               Len(loc[c].result.Timeline) = loc[c].step
        /\ (req[c][1] = "simulate" /\ pc[c] = "clearDiceValue_break") =>
               /\ loc[c].possible = <<>>
               /\ Len(loc[c].result.Timeline) = loc[c].step
        /\ (req[c][1] = "simulate" /\ pc[c] = "sim_return") =>
               \/ loc[c].possible = <<>>
                     /\ Len(loc[c].result.Timeline) = Steps(c)
               \/ Len(loc[c].result.Timeline) = loc[c].step

\* C18 witness: the test's specification was simulated for more than one
\* step and the cached result holds one event.
C18_Witness ==
    /\ SimulationDone("c1")
    /\ specSource = SimAlways
    /\ req["c1"][2] = MaxSteps
    /\ cachedSimulation.Total = 1

\* The sampled dice value is d: dice0_value(d) is the fact of the database.
Sampled(D) == Len(D.dice0_value) > 0

\* C19: dice0(Low, High) succeeds iff there is a sampled dice value d and
\* Low <= d < High; it never succeeds without a sampled value.
C19_Dice0NeedsSample ==
    [][\A g \in DiceGoals :
          QueryDice0(g[1], g[2]) =>
              (answer'[1] <=>
                  (Sampled(interpreter)
                      /\ g[1] <= interpreter.dice0_value[1]
                      /\ interpreter.dice0_value[1] < g[2]))]_vars

\* What dice0/2 does: it succeeds iff no dice value is sampled, or the
\* sampled value d satisfies Low <= d < High; with a sampled value it fails
\* for d = High and for d < Low.
Dice0HalfOpen ==
    [][\A g \in DiceGoals :
          QueryDice0(g[1], g[2]) =>
              (answer'[1] <=>
                  (~Sampled(interpreter)
                      \/ (g[1] <= interpreter.dice0_value[1]
                             /\ interpreter.dice0_value[1] < g[2])))]_vars

\* dice0(0.2, 0.7) was asked while 0.7 is the sampled value, and failed.
Dice0FailsAtHigh ==
    /\ goal = <<"dice0", 2, 7>>
    /\ answer[1] = FALSE
    /\ interpreter.dice0_value = <<7>>

\* No request is being served and no lock is held.
Quiet ==
    /\ \A c \in Clients : pc[c] = "idle"
    /\ mu = Unlocked
    /\ smu = Nobody

\* The specification that is now loaded: the last load succeeded and the
\* database holds the clauses of its text and of the core library.
NowLoaded(source) ==
    /\ source # <<>>
    /\ ParseOk(source)
    /\ specSource = source
    /\ interpreter = Exec(CoreDb, source)

\* What GET /api/simulate serves.
Served ==
    IF cachedSimulation = NoSimulation THEN EmptyResult ELSE cachedSimulation

\* Some transition leaving an initial state of D is enabled whatever the
\* sampled dice value is.
AlwaysMoves(D) ==
    \E i \in 1..Len(D.transition) :
        /\ \E j \in 1..Len(D.initial) : D.initial[j][2] = D.transition[i][2]
        /\ \A d \in Dice :
               EnablingRule([D EXCEPT !.dice0_value = <<d>>], D.transition[i])

\* r is the result of a simulation of the database D: its events are
\* transitions of D, Total counts them, and there is a first event when a
\* transition out of an initial state is enabled under every dice value.
IsSimulationOf(r, D) ==
    /\ r.Total = Len(r.Timeline)
    /\ \A i \in 1..Len(r.Timeline) :
           \E j \in 1..Len(D.transition) :
               D.transition[j] = <<"transition", r.Timeline[i].From,
                                   r.Timeline[i].Label, r.Timeline[i].To>>
    /\ AlwaysMoves(D) => Len(r.Timeline) >= 1

\* C20: after every successful load of a specification (POST /api/spec,
\* the startup load of server.New, the reload of handleReset), once the
\* server is at rest, the simulation that /api/simulate serves is one
\* computed from the specification that is now loaded.
C20_CacheFollowsLoad ==
    \A source \in StartupSources \cup {SpecFileContent} \cup Sources :
        (Quiet /\ NowLoaded(source)) =>
            IsSimulationOf(Served, Exec(CoreDb, source))

\* A result runAndCacheSimulation has finished: the one of its early
\* return, or one whose Steps field, written last, is set.
Complete(r) == r = EmptyResult \/ r.Steps = SimSteps

\* C21: the cached simulation is replaced atomically: what a reader of
\* /api/simulate obtains is the cached result as a whole or, if none was
\* ever produced, the empty result, and the cached result is at every
\* moment a finished one, never one that a running simulation is filling.
C21_CacheIsReplacedAtomically ==
    /\ [][\A c \in Clients :
             handleSimulate(c) =>
                 /\ resp'[c][2] = Served
                 /\ Complete(resp'[c][2])]_vars
    /\ [](Complete(Served))

\* C21 witness: a reader has been served the finished result of the
\* previous load while the simulation of the next load is running.
C21_Witness ==
    /\ req["c2"] = <<"simulation">>
    /\ resp["c2"][1] = "simulation"
    /\ resp["c2"][2].Total = 1
    /\ resp["c2"][2].Steps = SimSteps
    /\ smu = "c1"
    /\ loc["c1"].result.Total = 1

\* GetStateMachine has returned to a caller that passed context.Background().
GotStateMachine == goal = <<"GetStateMachine", Background>>

\* C22: GetStateMachine returns as States exactly the union of every From
\* and To of a transition/3 solution with every initial/1 and accepting/1
\* solution, each state once, and the Transitions in clause order; for
\* initial(s0), transition(s0, a, s1), transition(s1, b, s2) it returns the
\* states {s0, s1, s2}, the transitions [(s0, a, s1), (s1, b, s2)] and the
\* initial list [s0].
C22_StateMachineView ==
    GotStateMachine =>
        /\ answer[1].States =
               {x \in States :
                   \/ \E i \in 1..Len(interpreter.transition) :
                          x \in {interpreter.transition[i][2],
                                 interpreter.transition[i][4]}
                   \/ \E i \in 1..Len(interpreter.initial) :
                          x = interpreter.initial[i][2]
                   \/ \E i \in 1..Len(interpreter.accepting) :
                          x = interpreter.accepting[i][2]}
        /\ Len(answer[1].Transitions) = Len(interpreter.transition)
        /\ \A i \in 1..Len(interpreter.transition) :
               <<"transition">> \o answer[1].Transitions[i] =
                   interpreter.transition[i]
        /\ interpreter = Exec(CoreDb, ViewChain) =>
               /\ answer[1].States = {"s0", "s1", "s2"}
               /\ answer[1].Transitions =
                      << <<"s0", "a", "s1">>, <<"s1", "b", "s2">> >>
               /\ answer[1].Initial = <<"s0">>

\* C22 witness: the state machine of a specification whose initial and
\* accepting states occur in no transition has been extracted.
C22_Witness ==
    /\ GotStateMachine
    /\ interpreter = Exec(CoreDb, ViewApart)
    /\ answer[1].States = {"s0", "s1", "s2"}

\* C23: for a loaded specification with no transition/3 solution and some
\* initial/1 solution, GetStateMachine returns an empty state set and an
\* empty transition list together with a non-empty initial list.
C23_NoTransitionsNoStates ==
    (/\ GotStateMachine
     /\ Len(interpreter.transition) = 0
     /\ Len(interpreter.initial) > 0)
    => /\ answer[1].States = {}
       /\ answer[1].Transitions = <<>>
       /\ answer[1].Initial # <<>>

\* GetSequenceDiagram has returned to a caller that passed
\* context.Background().
GotSequenceDiagram == goal = <<"GetSequenceDiagram", Background>>

\* C24: GetSequenceDiagram returns the message/4 tuples ordered by
\* ascending Seq, whatever the order of the message clauses in the text.
C24_MessagesOrderedBySeq ==
    GotSequenceDiagram =>
        \A i, j \in 1..Len(answer[1].Messages) :
            i < j => answer[1].Messages[i].Seq <= answer[1].Messages[j].Seq

\* The pairs of an actor_transition/4 solution and a msg_annotation/3
\* solution of its label with direction send or recv.
AnnotatedPairs(D) ==
    {<<i, j>> \in (1..Len(Facts(D, "actor_transition", 4)))
                  \X (1..Len(Facts(D, "msg_annotation", 3))) :
        /\ Facts(D, "msg_annotation", 3)[j][2] =
               Facts(D, "actor_transition", 4)[i][4]
        /\ Facts(D, "msg_annotation", 3)[j][3] \in {"send", "recv"}}

\* Message m is the one of the pair <<i, j>>: Actor -> Peer for send,
\* Peer -> Actor for recv.
IsMessageOf(m, D, pair) ==
    LET at == Facts(D, "actor_transition", 4)[pair[1]]
        an == Facts(D, "msg_annotation", 3)[pair[2]]
    IN  /\ m.Label = at[4]
        /\ an[3] = "send" => (m.From = at[2] /\ m.To = an[4])
        /\ an[3] = "recv" => (m.From = an[4] /\ m.To = at[2])

\* C25: when message/4 yields no tuple, GetSequenceDiagram synthesizes one
\* message for each actor_transition, in enumeration order, and each
\* annotation of its label: Actor -> Peer for send, Peer -> Actor for recv,
\* nothing for another direction, numbered 1, 2, 3, ... in emission order;
\* when message/4 yields a tuple, nothing is synthesized.
C25_SequenceFallback ==
    GotSequenceDiagram =>
        LET D == interpreter
            msgs == answer[1].Messages
        IN  IF Len(Facts(D, "message", 4)) = 0
            THEN /\ Len(msgs) = Cardinality(AnnotatedPairs(D))
                 /\ \A k \in 1..Len(msgs) : msgs[k].Seq = k
                 /\ \E f \in [1..Len(msgs) -> AnnotatedPairs(D)] :
                        /\ \A k \in 1..Len(msgs) : IsMessageOf(msgs[k], D, f[k])
                        /\ \A k, l \in 1..Len(msgs) :
                               k < l => \/ f[k][1] < f[l][1]
                                        \/ f[k][1] = f[l][1]
                                               /\ f[k][2] < f[l][2]
                 /\ Facts(D, "msg_annotation", 3)
                        = SelectSeq(ViewFallback,
                                    LAMBDA c : c[1] = "msg_annotation")
                    /\ Facts(D, "actor_transition", 4)
                        = SelectSeq(ViewFallback,
                                    LAMBDA c : c[1] = "actor_transition")
                    => msgs =
                         << [Seq |-> 1, From |-> "client", To |-> "server",
                             Label |-> "send_prompt"],
                            [Seq |-> 2, From |-> "server", To |-> "client",
                             Label |-> "receive_response"] >>
            ELSE /\ Len(msgs) = Len(Facts(D, "message", 4))
                 /\ \A k \in 1..Len(msgs) :
                        <<"message", msgs[k].Seq, msgs[k].From, msgs[k].To,
                          msgs[k].Label>> = Facts(D, "message", 4)[k]

\* C25 witness: the fallback has emitted two messages for the transition
\* labelled pong and none for the labels ping and quit.
C25_Witness ==
    /\ GotSequenceDiagram
    /\ Len(Facts(interpreter, "message", 4)) = 0
    /\ answer[1].Messages =
           << [Seq |-> 1, From |-> "server", To |-> "client",
               Label |-> "pong"],
              [Seq |-> 2, From |-> "client", To |-> "logger",
               Label |-> "pong"] >>

\* The projections and, for each, the predicates it queries.
Projections ==
    {"GetStateMachine", "GetSequenceDiagram", "GetPieChart", "GetLineChart",
     "GetProperties", "GetDocs", "GetActors"}

\* No predicate that the projection queries has a clause in D.
NoClauses(D, projection) ==
    CASE projection = "GetStateMachine" ->
             Len(D.transition) + Len(D.initial) + Len(D.accepting) = 0
      [] projection = "GetSequenceDiagram" ->
             \A i \in 1..Len(D.facts) :
                 D.facts[i][1] \notin {"lifeline", "message",
                                       "msg_annotation", "actor_transition"}
      [] projection = "GetPieChart" -> Len(Facts(D, "pie_slice", 2)) = 0
      [] projection = "GetLineChart" -> Len(Facts(D, "line_point", 3)) = 0
      [] projection = "GetProperties" -> Len(Facts(D, "property", 3)) = 0
      [] projection = "GetDocs" -> Len(Facts(D, "doc", 2)) = 0
      [] projection = "GetActors" ->
             Len(Facts(D, "actor", 1)) + Len(Facts(D, "actor", 2)) = 0

\* The view holds nothing.
IsEmptyView(view, projection) ==
    CASE projection = "GetStateMachine" ->
             view = [States |-> {}, Transitions |-> <<>>, Initial |-> <<>>,
                     Accepting |-> <<>>]
      [] projection = "GetSequenceDiagram" ->
             view = [Lifelines |-> <<>>, Messages |-> <<>>]
      [] OTHER -> view = <<>>

\* The deadline of the context has expired before the first solution.
Expired(ctx) == ctx.deadline /\ ctx.after = 0

Current(c) == loc[c].results[loc[c].i]

\* C27: for every property(Name, Desc, Formula) fact the reported satisfied
\* value equals the result of check_ctl on Formula against the loaded
\* specification; a property whose formula text does not parse is reported
\* with an error for that property only, and the remaining properties are
\* still checked.
C27_NamedPropertyCheck ==
    /\ [][\A c \in Clients :
             props_QueryOne(c) =>
                 LET i == loc[c].i
                     Phi == ParseFormula(Current(c).Formula)
                     now == loc'[c].results[i]
                 IN  /\ \A k \in 1..Len(loc[c].results) :
                            k # i => loc'[c].results[k] = loc[c].results[k]
                     /\ Phi = ParseError =>
                            now.Error # "" /\ now.Satisfied = "nil"
                     /\ Phi # ParseError =>
                            \/ now.Error = "timeout" /\ now.Satisfied = "nil"
                            \/ /\ now.Error = ""
                               /\ now.Satisfied =
                                      IF check_ctl(interpreter, Phi)
                                      THEN "true" ELSE "false"]_vars
    /\ [](\A c \in Clients :
             resp[c][1] = "properties" =>
                 \A k \in 1..Len(resp[c][2]) :
                     /\ [Satisfied |-> resp[c][2][k].Satisfied,
                         Error |-> resp[c][2][k].Error] # Unchecked
                     /\ resp[c][2][k].Error = ParseError[1]
                            <=> ParseFormula(resp[c][2][k].Formula)
                                    = ParseError)

\* C27 witness: the properties before and after the one whose formula does
\* not parse are reported as satisfied and not satisfied.
C27_Witness ==
    /\ resp["c1"][1] = "properties"
    /\ Len(resp["c1"][2]) = 3
    /\ resp["c1"][2][1].Satisfied = "true"
    /\ resp["c1"][2][2].Error = ParseError[1]
    /\ resp["c1"][2][3].Satisfied = "false"
    /\ interpreter = Exec(CoreDb, ViewProperties)

\* C28: every mutation of the clause database happens while the engine
\* write lock is held: no step changes the database while its goroutine
\* holds the read lock only, the dice0_value updates of the simulator
\* included.
C28_MutationsHoldWriteLock ==
    [][interpreter' # interpreter => mu'.w # Nobody]_vars

\* The goroutine is inside a simulation step: its dice value is asserted
\* and not yet retracted.
InStep(c) ==
    pc[c] \in {"sim_collect", "sim_pick", "clearDiceValue",
               "clearDiceValue_break"}

\* C29: while the guards of a simulation step are evaluated exactly one
\* dice0_value fact exists, the sample of that step; outside the steps,
\* that is before the next step and once runAndCacheSimulation has returned
\* by any of its exits, no dice0_value fact exists.
C29_DiceFactScoping ==
    /\ [][\A c \in Clients :
             sim_collect(c) => interpreter.dice0_value = <<loc[c].dice>>]_vars
    /\ []((\A c \in Clients : ~InStep(c)) => interpreter.dice0_value = <<>>)

\* The context under which the goals of the request of c are run: the
\* handlers derive one with a timeout from the request, and
\* runAndCacheSimulation, called by handleSpec, uses context.Background().
WithTimeout == [deadline |-> TRUE]
ctx(c) ==
    IF req[c][1] \in {"check", "query", "properties"}
    THEN WithTimeout
    ELSE Background

\* C30: every goal run against the interpreter carries a deadline or a
\* cancellation token, the guard and dice queries of the simulator
\* included: a goroutine holding the engine's read lock for a goal has a
\* context with a deadline.
C30_GoalsCarryDeadline ==
    \A c \in Clients : c \in mu.r => ctx(c).deadline

\* C31: a query that ends with a timeout after solutions were found returns
\* the error without the solutions: neither Query nor RawQuery answers with
\* a non-empty result together with an error.
C31_NoPartialResults ==
    (goal[1] \in {"Query", "RawQuery"} /\ answer[2] # "nil")
        => Len(answer[1]) = 0

\* The event a step of the simulator has just recorded.
LastEvent(c) == loc[c].result.Timeline[Len(loc[c].result.Timeline)]

\* C32: the timeline is a valid walk. Every recorded event is a transition
\* of the loaded specification whose From is the current state of a tracked
\* actor; after it that actor is in To and no actor entry is created; with
\* one initial state each event starts where the previous one ended, and
\* there are never more tracked actors than initial states.
C32_TimelineIsValidWalk ==
    /\ [][\A c \in Clients :
             (sim_pick(c) /\ Len(loc[c].possible) > 0) =>
                 LET e == LastEvent(c)'
                     cs == loc[c].currentStates
                 IN  /\ <<"transition", e.From, e.Label, e.To>>
                            \in Range(interpreter.transition)
                     /\ DOMAIN loc'[c].currentStates = DOMAIN cs
                     /\ \E a \in DOMAIN cs :
                            /\ cs[a] = e.From
                            /\ loc'[c].currentStates[a] = e.To]_vars
    /\ [](\A c \in Clients :
             LET T == loc[c].result.Timeline
             IN  /\ Cardinality(DOMAIN loc[c].currentStates)
                        <= Len(loc[c].sm.Initial)
                 /\ Len(loc[c].sm.Initial) = 1 =>
                        \A k \in 2..Len(T) : T[k].From = T[k - 1].To)

\* Both goroutines have completed a POST /api/spec, one loading A and the
\* other loading B, and no request is in progress.
BothLoaded ==
    /\ \A c \in Clients : pc[c] = "idle" /\ resp[c] = <<"success", TRUE>>
    /\ {req[c] : c \in Clients} = {<<"spec", SpecA>>, <<"spec", SpecB>>}
    /\ mu = Unlocked
    /\ smu = Nobody

\* C33: after two concurrent POST /api/spec requests loading A and B have
\* both completed, the clause database holds the clauses of exactly one of
\* A and B, and GetSource returns the text of that same specification.
C33_OneOfTwoLoads ==
    BothLoaded =>
        \E source \in {SpecA, SpecB} :
            /\ interpreter = Exec(CoreDb, source)
            /\ specSource = source

\* C34: no interleaving of handlers deadlocks. The server mutex is taken
\* only by a goroutine that holds no engine lock, the engine lock only by a
\* goroutine that does not hold it, every lock taken is released, and every
\* request that has arrived completes.
C34_NoDeadlock ==
    /\ [][\A c \in Clients :
             /\ (smu' = c /\ smu # c) => HoldsNoLock(c)
             /\ (mu'.w = c /\ mu.w # c) => HoldsNoLock(c)
             /\ (c \in mu'.r /\ c \notin mu.r) => HoldsNoLock(c)]_vars
    /\ \A c \in Clients :
           /\ (pc[c] # "idle") ~> (pc[c] = "idle")
           /\ (smu = c) ~> (smu # c)
           /\ (~HoldsNoLock(c)) ~> HoldsNoLock(c)

\* C34 witness: one goroutine runs a goal of the simulator under the server
\* mutex and the engine's read lock while the other waits for the server
\* mutex.
C34_Witness ==
    /\ smu = "c1"
    /\ "c1" \in mu.r
    /\ pc["c2"] \in {"runAndCacheSimulation", "incCounter", "getTimeSeries"}

RECURSIVE SumOf(_)
\* The sum of the counts of a map.
SumOf(counts) ==
    IF DOMAIN counts = {}
    THEN 0
    ELSE LET k == CHOOSE x \in DOMAIN counts : TRUE
         IN  counts[k] + SumOf([x \in DOMAIN counts \ {k} |-> counts[x]])

\* C35: in every cached simulation result Total is the number of timeline
\* events and the sum of the ByType, of the BySrc and of the ByDst counts;
\* the Step values of the events start at 0 and increase strictly; and
\* Total does not exceed Steps (both are 0 after the early return).
C35_AggregatesAgreeWithTimeline ==
    cachedSimulation # NoSimulation =>
        LET r == cachedSimulation
            T == r.Timeline
        IN  /\ r.Total = Len(T)
            /\ r.Total = SumOf(r.ByType)
            /\ r.Total = SumOf(r.BySrc)
            /\ r.Total = SumOf(r.ByDst)
            /\ Len(T) > 0 => T[1].Step = 0
            /\ \A k \in 2..Len(T) : T[k - 1].Step < T[k].Step
            /\ r.Total <= r.Steps

\* C35 witness: a cached result of three events, two of them of one type.
C35_Witness ==
    /\ cachedSimulation # NoSimulation
    /\ cachedSimulation.Total = 3
    /\ \E label \in DOMAIN cachedSimulation.ByType :
           cachedSimulation.ByType[label] = 2

\* Every state reachable from s has a successor.
TotalFrom(D, s) == \A t \in Reachable(D, s) : Succ(D, t) # {}

KernelDb == [edge |-> <<>>, holds |-> <<>>]

KernelProps == {"done"}

\* The answer of a call that has not returned.
Running == <<"running">>

\* holds(S, P) has a solution.
holds(D, S, P) == \E i \in 1..Len(D.holds) : D.holds[i] = <<"holds", S, P>>

\* The solutions T of edge(S, T), one per matching clause, in clause order.
edge(D, S) ==
    LET es == SelectSeq(D.edge, LAMBDA e : e[2] = S)
    IN  [i \in 1..Len(es) |-> es[i][3]]

\* ef(P, S, Vis): S satisfies P, or an edge leads to a state outside Vis
\* from which ef succeeds with that state added to Vis.  Vis grows with
\* every call, so the search ends.
RECURSIVE ef3(_, _, _, _)
ef3(D, P, S, Vis) ==
    LET Ts == edge(D, S)
    IN  \/ holds(D, S, P)
        \/ \E i \in 1..Len(Ts) :
              /\ ~member(Ts[i], Vis)
              /\ ef3(D, P, Ts[i], <<Ts[i]>> \o Vis)

\* ef(P, S) :- ef(P, S, [S]).
ef(D, P, S) == ef3(D, P, S, <<S>>)

\* The resolution of reachable(S, T) for a bound S yields S, and then, for
\* each clause edge(S, U) in clause order, the solutions of reachable(U, T).
\* No state is remembered: through a cycle the enumeration has no end, and
\* what comes after the cycle in clause order is never tried.  A call chain
\* longer than the states there are has entered a cycle; the enumeration is
\* followed to a depth of twice the number of states, where every state it
\* will ever yield has been yielded, and Loop stands for the rest of it.
Depth == 2 * Cardinality(States)
Loop == "..."

RECURSIVE reachable(_, _, _), reachableVia(_, _, _)
reachable(D, S, fuel) ==
    IF fuel = 0
    THEN <<Loop>>
    ELSE <<S>> \o reachableVia(D, edge(D, S), fuel - 1)

reachableVia(D, Us, fuel) ==
    IF Us = <<>>
    THEN <<>>
    ELSE reachable(D, Head(Us), fuel) \o reachableVia(D, Tail(Us), fuel)

\* The enumeration sols yields a state outside P before it loops.
YieldsOutside(D, P, sols) ==
    \E j \in 1..Len(sols) :
        /\ \A i \in 1..j : sols[i] # Loop
        /\ ~holds(D, sols[j], P)

\* ag(P, S) :- \+ ( reachable(S, T), \+ holds(T, P) ).  The negated goal
\* stops at the first T outside P, and ag fails; when the enumeration is
\* exhausted without one, ag succeeds; when it has no end and yields no T
\* outside P the call does not return.
ag(D, P, S) ==
    IF \E sols \in {reachable(D, S, Depth)} : YieldsOutside(D, P, sols)
    THEN <<FALSE, "nil">>
    ELSE IF \E sols \in {reachable(D, S, Depth)} :
                \A j \in 1..Len(sols) : sols[j] # Loop
         THEN <<TRUE, "nil">>
         ELSE Running

\* The queries given to QueryBool.
KernelQueries == {<<op, P, S>> : op \in {"ef", "ag"}, P \in KernelProps, S \in States}

\* Kernel.Assertz: the clause is added after the clauses of its predicate,
\* under the mutex.
Assertz(clause) ==
    /\ mu = Unlocked
    /\ \/ clause[1] = "edge" /\ Len(interpreter.edge) < MaxTransitions
       \/ clause[1] = "holds" /\ Len(interpreter.holds) < MaxProps
    /\ interpreter' = [interpreter EXCEPT ![clause[1]] = Append(@, clause)]
    /\ goal' = NoGoal
    /\ answer' = NoAnswer
    /\ UNCHANGED <<specSource, frame>>
    /\ UNCHANGED serverVars

\* RunTool, case "seed_demo_model": three assertions, whose results are
\* dropped.
DemoModel == <<<<"edge", "s0", "s1">>, <<"edge", "s1", "s2">>, <<"holds", "s2", "done">>>>

seed_demo_model ==
    /\ mu = Unlocked
    /\ Len(interpreter.edge) + 2 <= MaxTransitions
    /\ Len(interpreter.holds) + 1 <= MaxProps
    /\ interpreter' = [edge |-> interpreter.edge \o SubSeq(DemoModel, 1, 2),
                       holds |-> interpreter.holds \o SubSeq(DemoModel, 3, 3)]
    /\ goal' = NoGoal
    /\ answer' = NoAnswer
    /\ UNCHANGED <<specSource, frame>>
    /\ UNCHANGED serverVars

\* Kernel.QueryBool: the query runs under the mutex and without a deadline;
\* the call returns whether there is a first solution.  A query that does
\* not end keeps the mutex.
QueryBool(c, q) ==
    /\ mu = Unlocked
    /\ goal' = <<"QueryBool", q>>
    /\ answer' = IF q[1] = "ef"
                 THEN <<ef(interpreter, q[2], q[3]), "nil">>
                 ELSE ag(interpreter, q[2], q[3])
    /\ mu' = IF answer' = Running THEN [mu EXCEPT !.w = c] ELSE mu
    /\ UNCHANGED <<interpreter, specSource, frame>>
    /\ UNCHANGED <<smu, cachedSimulation, counters, pc, req, resp, loc, started>>

InitKernel ==
    /\ interpreter = KernelDb
    /\ specSource = <<>>
    /\ goal = NoGoal
    /\ answer = NoAnswer
    /\ frame = NoFrame
    /\ ServerInit

NextKernel ==
    \/ \E s \in States, t \in States : Assertz(<<"edge", s, t>>)
    \/ \E s \in States, P \in KernelProps : Assertz(<<"holds", s, P>>)
    \/ seed_demo_model
    \/ \E c \in Clients, q \in KernelQueries : QueryBool(c, q)

SpecKernel == InitKernel /\ [][NextKernel]_vars

\* The states reachable from S through edge/2, S included.
RECURSIVE KernelReach(_, _)
KernelReach(D, Seen) ==
    LET next == Seen \cup {t \in States : \E s \in Seen : member(t, edge(D, s))}
    IN  IF next = Seen THEN Seen ELSE KernelReach(D, next)

\* C37: a query ag(P, S) or ef(P, S) of the kernel returns on every finite
\* edge graph, cyclic or not; ag succeeds iff P holds in every state
\* reachable from S through edge/2 and ef succeeds iff P holds in some
\* reachable state; on the demo model ef(done, s0) is true and ag(done, s0)
\* is false.
C37_KernelEfAg ==
    goal[1] = "QueryBool" =>
        LET q == goal[2]
            R == KernelReach(interpreter, {q[3]})
        IN  /\ answer # Running
            /\ answer[2] = "nil"
            /\ q[1] = "ag" => (answer[1] <=> \A t \in R : holds(interpreter, t, q[2]))
            /\ q[1] = "ef" => (answer[1] <=> \E t \in R : holds(interpreter, t, q[2]))

\* ------------------------------------------------------------------------
\* reqsrv: the document store
\* ------------------------------------------------------------------------

\* In the specifications of reqsrv cachedSimulation is Server.Docs, the
\* DocStore with its maps meta and body.  In SpecStore mu is DocStore.mu,
\* req[c] is the call goroutine c is in, resp[c] what its last call returned,
\* loc[c] the locals d and ok of Get, and goal keeps, for every id, the
\* arguments of the last Put that took the lock.

\* NewDocStore: two empty maps.
NewDocStore == [meta |-> << >>, body |-> << >>]

\* The zero Doc.
NoDoc == [ID |-> "", Title |-> "", Mime |-> "", Content |-> ""]

\* map[key] = value on a Go map.
Stored(map, key, value) ==
    [k \in DOMAIN map \cup {key} |-> IF k = key THEN value ELSE map[k]]

\* s.meta[id] = Doc{ID: id, Title: title, Mime: mime}
PutMeta(s, id, title, mime) ==
    [s EXCEPT !.meta = Stored(@, id, [ID |-> id, Title |-> title,
                                     Mime |-> mime, Content |-> ""])]

\* s.body[id] = content
PutBody(s, id, content) == [s EXCEPT !.body = Stored(@, id, content)]

\* DocStore.Put called while no other goroutine uses the store.
Put(s, id, title, mime, content) ==
    PutBody(PutMeta(s, id, title, mime), id, content)

\* The documents written in SpecStore: two ids, two versions each.
DocIds == {"a.md", "b.md"}
DocVersions == {<<"Title 1", "text 1">>, <<"Title 2", "text 2">>}
Markdown == "text/markdown"

StoreLocals == [d |-> NoDoc, ok |-> FALSE]

\* The calls of one run are counted in started.
StoreCall(c) == At(c, "idle") /\ started < MaxRequests

\* DocStore.Put that releases the lock between its two assignments.
DocStore_Put_unlocksEarly(c, id, title, mime, content) ==
    /\ StoreCall(c)
    /\ CanLock
    /\ started' = started + 1
    /\ cachedSimulation' = PutMeta(cachedSimulation, id, title, mime)
    /\ goal' = Stored(goal, id, <<title, mime, content>>)
    /\ req' = [req EXCEPT ![c] = <<"Put", id, title, mime, content>>]
    /\ pc' = [pc EXCEPT ![c] = "Put_body"]
    /\ UNCHANGED <<interpreter, specSource, answer, frame, mu, smu, counters,
                   resp, loc>>

\* DocStore.Put: s.mu.Lock() and the assignment to s.meta.
DocStore_Put(c, id, title, mime, content) ==
    /\ StoreCall(c)
    /\ CanLock
    /\ mu' = [mu EXCEPT !.w = c]
    /\ started' = started + 1
    /\ cachedSimulation' = PutMeta(cachedSimulation, id, title, mime)
    /\ goal' = Stored(goal, id, <<title, mime, content>>)
    /\ req' = [req EXCEPT ![c] = <<"Put", id, title, mime, content>>]
    /\ pc' = [pc EXCEPT ![c] = "Put_body"]
    /\ UNCHANGED <<interpreter, specSource, answer, frame, smu, counters,
                   resp, loc>>

\* DocStore.Put: the assignment to s.body and the deferred Unlock.
Put_body(c) ==
    /\ pc[c] = "Put_body"
    /\ cachedSimulation' = PutBody(cachedSimulation, req[c][2], req[c][5])
    /\ mu' = [mu EXCEPT !.w = Nobody]
    /\ resp' = [resp EXCEPT ![c] = <<"Put">>]
    /\ pc' = [pc EXCEPT ![c] = "idle"]
    /\ UNCHANGED <<interpreter, specSource, goal, answer, frame, smu,
                   counters, req, loc, started>>

\* DocStore.Get: s.mu.RLock() and d, ok := s.meta[id].
DocStore_Get(c, id) ==
    /\ StoreCall(c)
    /\ CanRLock
    /\ mu' = [mu EXCEPT !.r = @ \cup {c}]
    /\ started' = started + 1
    /\ loc' = [loc EXCEPT ![c] =
                  IF id \in DOMAIN cachedSimulation.meta
                  THEN [d |-> cachedSimulation.meta[id], ok |-> TRUE]
                  ELSE [d |-> NoDoc, ok |-> FALSE]]
    /\ req' = [req EXCEPT ![c] = <<"Get", id>>]
    /\ pc' = [pc EXCEPT ![c] = "Get_body"]
    /\ UNCHANGED <<interpreter, specSource, goal, answer, frame, smu,
                   cachedSimulation, counters, resp>>

\* s.body[id] on a Go map: the empty string for a missing key.
BodyOf(s, id) == IF id \in DOMAIN s.body THEN s.body[id] ELSE ""

\* DocStore.Get: the early return, or d.Content = s.body[id] and the return;
\* the deferred RUnlock.
Get_body(c) ==
    /\ pc[c] = "Get_body"
    /\ resp' = [resp EXCEPT ![c] =
                   IF ~loc[c].ok
                   THEN <<"Get", NoDoc, FALSE>>
                   ELSE <<"Get",
                          [loc[c].d EXCEPT !.Content = BodyOf(cachedSimulation, req[c][2])],
                          TRUE>>]
    /\ mu' = [mu EXCEPT !.r = @ \ {c}]
    /\ loc' = [loc EXCEPT ![c] = StoreLocals]
    /\ pc' = [pc EXCEPT ![c] = "idle"]
    /\ UNCHANGED <<interpreter, specSource, goal, answer, frame, smu,
                   cachedSimulation, counters, req, started>>

\* DocStore.List: the values of s.meta, under the read lock.  The order of a
\* range over a Go map is not fixed: the result is kept as a set.
DocStore_List(c) ==
    /\ StoreCall(c)
    /\ CanRLock
    /\ started' = started + 1
    /\ req' = [req EXCEPT ![c] = <<"List">>]
    /\ resp' = [resp EXCEPT ![c] =
                   <<"List", {cachedSimulation.meta[id] : id \in DOMAIN cachedSimulation.meta}>>]
    /\ UNCHANGED <<interpreter, specSource, goal, answer, frame, mu, smu,
                   cachedSimulation, counters, pc, loc>>

\* A Go map value is a reference.  What Snapshot returns is either the map
\* out it has made, whose content is the field map, or the map s.body
\* itself, whose content is whatever the store holds.
MapOf(ret) == IF ret.ref = "body" THEN cachedSimulation.body ELSE ret.map

\* DocStore.Snapshot: a new map with s.body[id] for every id of s.meta,
\* under the read lock.
DocStore_Snapshot(c) ==
    /\ StoreCall(c)
    /\ CanRLock
    /\ started' = started + 1
    /\ req' = [req EXCEPT ![c] = <<"Snapshot">>]
    /\ resp' = [resp EXCEPT ![c] =
                   <<"Snapshot",
                     [ref |-> "out",
                      map |-> [id \in DOMAIN cachedSimulation.meta |->
                                  BodyOf(cachedSimulation, id)]]>>]
    /\ UNCHANGED <<interpreter, specSource, goal, answer, frame, mu, smu,
                   cachedSimulation, counters, pc, loc>>

InitStore ==
    /\ interpreter = KernelDb
    /\ specSource = <<>>
    /\ goal = << >>
    /\ answer = NoAnswer
    /\ frame = NoFrame
    /\ mu = Unlocked
    /\ smu = Nobody
    /\ cachedSimulation = NewDocStore
    /\ counters = [spec_loads |-> 0, ctl_checks |-> 0, queries |-> 0]
    /\ pc = [c \in Clients |-> "idle"]
    /\ req = [c \in Clients |-> NoRequest]
    /\ resp = [c \in Clients |-> NoResponse]
    /\ loc = [c \in Clients |-> StoreLocals]
    /\ started = 0

NextStore ==
    \E c \in Clients :
        \/ \E id \in DocIds, v \in DocVersions :
               DocStore_Put(c, id, v[1], Markdown, v[2])
        \/ Put_body(c)
        \/ \E id \in DocIds : DocStore_Get(c, id)
        \/ Get_body(c)
        \/ DocStore_List(c)
        \/ DocStore_Snapshot(c)

SpecStore == InitStore /\ [][NextStore]_vars

\* C40: the store is consistent under every interleaving of its calls.
\* While no Put holds the lock meta and body have the same keys; a Get of an
\* id returns the title, mime and content of the last Put of that id, and
\* not-found for an id never put; List returns the stored metadata without
\* content; the map a Snapshot returned stays what it was when later Puts
\* change the store.
C40_DocStoreConsistent ==
    /\ [](mu.w = Nobody =>
             DOMAIN cachedSimulation.meta = DOMAIN cachedSimulation.body)
    /\ [][\A c \in Clients :
             (pc[c] = "Get_body" /\ pc'[c] = "idle") =>
                 LET id == req[c][2] IN
                 resp'[c] = IF id \in DOMAIN goal
                            THEN <<"Get",
                                   [ID |-> id, Title |-> goal[id][1],
                                    Mime |-> goal[id][2], Content |-> goal[id][3]],
                                   TRUE>>
                            ELSE <<"Get", NoDoc, FALSE>>]_vars
    /\ [](\A c \in Clients :
             resp[c][1] = "Snapshot" => MapOf(resp[c][2]) = resp[c][2].map)

\* A Get has returned the second version of a document put twice.
C40_Witness ==
    \E c \in Clients :
        /\ resp[c][1] = "Get"
        /\ resp[c][3]
        /\ resp[c][2].Title = "Title 2"
        /\ resp[c][2].Content = "text 2"
        /\ started = 3

\* ------------------------------------------------------------------------
\* reqsrv: the chat loop and its tools
\* ------------------------------------------------------------------------

\* In SpecChat pc[c] is the position of goroutine c in Client.Chat, req[c]
\* its ChatInput, loc[c] the locals step, inputList, resp, calls and the
\* index i of the loop over calls, and resp[c] what Chat returned.

\* for step := 0; step < 8; step++
MaxToolSteps == 8

\* ToolCall.Arguments is a JSON text: one that json.Unmarshal rejects, or the
\* fields of the object it holds.
BadJSON == [json |-> FALSE]
NoArguments == [json |-> TRUE]

\* The items of the Responses API.
UserItem(text) == [role |-> "user", content |-> text]
MessageItem(text) ==
    [type |-> "message", content |-> <<[type |-> "output_text", text |-> text]>>]
FunctionCall(id, name, args) ==
    [type |-> "function_call", call_id |-> id, name |-> name, arguments |-> args]

\* t, _ := it["type"].(string): the empty string for an item without type.
TypeOf(it) == IF "type" \in DOMAIN it THEN it.type ELSE ""

\* extractToolCalls: the function_call items, in order.
extractToolCalls(items) ==
    LET fs == SelectSeq(items, LAMBDA it : TypeOf(it) = "function_call")
    IN  [j \in 1..Len(fs) |->
            [CallID |-> fs[j].call_id, Name |-> fs[j].name,
             Arguments |-> fs[j].arguments]]

\* extractText: the output_text parts of the message items, in order.  A
\* text is kept as the sequence of its parts.
RECURSIVE extractText(_)
extractText(items) ==
    IF items = <<>>
    THEN <<>>
    ELSE (IF TypeOf(Head(items)) = "message"
          THEN LET parts == SelectSeq(Head(items).content,
                                      LAMBDA p : p.type = "output_text")
               IN  [j \in 1..Len(parts) |-> parts[j].text]
          ELSE <<>>)
         \o extractText(Tail(items))

\* Kernel.p after assertz(clause).
assertz(D, clause) == [D EXCEPT ![clause[1]] = Append(@, clause)]

\* What QueryBool returns for the query q on the database D.
Answer(D, q) ==
    IF q[1] = "ef" THEN <<ef(D, q[2], q[3]), "nil">> ELSE ag(D, q[2], q[3])

\* RunTool: the result and the error it returns, and the store and the
\* kernel after it; returns is false for the ctl_check whose query does not
\* return.
NoResult == [Name |-> "", Output |-> << >>]

RunTool(tc, docs, k) ==
    LET in == tc.Arguments
        ok == [Name |-> tc.Name, Output |-> [ok |-> TRUE]]
        failed(e) == [returns |-> TRUE, res |-> NoResult, err |-> e, docs |-> docs, k |-> k]
    IN  CASE tc.Name = "doc_put" ->
               IF ~in.json
               THEN failed("unexpected end of JSON input")
               ELSE [returns |-> TRUE, res |-> ok, err |-> "nil",
                     docs |-> Put(docs, in.id, in.title,
                                  IF in.mime = "" THEN Markdown ELSE in.mime,
                                  in.content),
                     k |-> k]
          [] tc.Name = "prolog_assertz" ->
               IF ~in.json
               THEN failed("unexpected end of JSON input")
               ELSE [returns |-> TRUE, res |-> ok, err |-> "nil", docs |-> docs,
                     k |-> assertz(k, in.clause)]
          [] tc.Name = "ctl_check" ->
               IF ~in.json
               THEN failed("unexpected end of JSON input")
               ELSE LET a == Answer(k, in.query)
                    IN  [returns |-> a # Running,
                         res |-> IF a = Running
                                 THEN NoResult
                                 ELSE [Name |-> tc.Name,
                                       Output |-> [ok |-> TRUE, result |-> a[1]]],
                         err |-> "nil", docs |-> docs, k |-> k]
          [] tc.Name = "seed_demo_model" ->
               [returns |-> TRUE, res |-> ok, err |-> "nil",
                docs |-> Put(Put(Put(docs, "requirements.md", "Requirements", Markdown, "demoRequirementsMD"),
                                 "program.mmd", "Program Diagram (Mermaid)", "text/plain", "demoProgramMMD"),
                             "interaction.mmd", "Interaction Diagram (Mermaid)", "text/plain", "demoInteractionMMD"),
                k |-> assertz(assertz(assertz(k, DemoModel[1]), DemoModel[2]), DemoModel[3])]
          [] OTHER -> failed("unknown tool: " \o tc.Name)

\* The answers of the model: its output items and its output_text.
Responses ==
    {[Output |-> <<MessageItem("hello")>>, OutputText |-> "hello"],
     [Output |-> <<MessageItem("hello")>>, OutputText |-> ""],
     [Output |-> <<FunctionCall("a", "prolog_assertz", [json |-> TRUE, clause |-> <<"edge", "s0", "s0">>]),
                   FunctionCall("b", "prolog_assertz", [json |-> TRUE, clause |-> <<"holds", "s0", "done">>])>>,
      OutputText |-> ""],
     [Output |-> <<MessageItem("checking"),
                   FunctionCall("a", "ctl_check", [json |-> TRUE, query |-> <<"ag", "done", "s0">>])>>,
      OutputText |-> "checking"],
     [Output |-> <<FunctionCall("a", "no_such_tool", NoArguments),
                   FunctionCall("a", "doc_put", BadJSON)>>,
      OutputText |-> ""],
     [Output |-> <<FunctionCall("b", "seed_demo_model", NoArguments),
                   FunctionCall("a", "doc_put",
                                [json |-> TRUE, id |-> "a.md", title |-> "Title 1",
                                 mime |-> "", content |-> "text 1"])>>,
      OutputText |-> ""]}

\* The clauses of a predicate the calls of an answer assert.
RECURSIVE Asserts(_, _)
Asserts(calls, functor) ==
    IF calls = <<>>
    THEN 0
    ELSE (CASE Head(calls).Name = "seed_demo_model" ->
                    Len(SelectSeq(DemoModel, LAMBDA cl : cl[1] = functor))
            [] Head(calls).Name = "prolog_assertz" ->
                    (IF Head(calls).Arguments.clause[1] = functor THEN 1 ELSE 0)
            [] OTHER -> 0)
         + Asserts(Tail(calls), functor)

\* The model asserts no more clauses than the run has room for.
Fits(r) ==
    /\ Len(interpreter.edge) + Asserts(extractToolCalls(r.Output), "edge") <= MaxTransitions
    /\ Len(interpreter.holds) + Asserts(extractToolCalls(r.Output), "holds") <= MaxProps

NoChatResponse == [Output |-> <<>>, OutputText |-> ""]
ChatLocals ==
    [step |-> 0, inputList |-> <<>>, resp |-> NoChatResponse, calls |-> <<>>, i |-> 0]

\* What Chat returns.
ChatReturn(text, err) == <<"Chat", text, err>>

\* Server.handleChat calls Client.Chat: the input list holds the user's
\* message.
Chat(c, text) ==
    /\ pc[c] = "idle"
    /\ resp[c] = NoResponse
    /\ req' = [req EXCEPT ![c] = [UserText |-> text]]
    /\ loc' = [loc EXCEPT ![c] = [ChatLocals EXCEPT !.inputList = <<UserItem(text)>>]]
    /\ pc' = [pc EXCEPT ![c] = "do"]
    /\ UNCHANGED <<interpreter, specSource, goal, answer, frame, mu, smu,
                   cachedSimulation, counters, resp, started>>

\* One request of the loop fails: Chat returns the error.
Chat_do_error(c) ==
    /\ pc[c] = "do"
    /\ resp' = [resp EXCEPT ![c] = ChatReturn(<<>>, "openai error")]
    /\ pc' = [pc EXCEPT ![c] = "idle"]
    /\ UNCHANGED <<interpreter, specSource, goal, answer, frame, mu, smu,
                   cachedSimulation, counters, req, loc, started>>

\* One request of the loop is answered: the output items are appended to the
\* input list; without a tool call Chat returns the text.
Chat_do(c, r) ==
    /\ pc[c] = "do"
    /\ Fits(r)
    /\ LET calls == extractToolCalls(r.Output)
       IN  /\ loc' = [loc EXCEPT ![c].inputList = @ \o r.Output,
                                 ![c].resp = r,
                                 ![c].calls = calls,
                                 ![c].i = IF Len(calls) = 0 THEN 0 ELSE 1]
           /\ IF Len(calls) = 0
              THEN /\ resp' = [resp EXCEPT ![c] =
                                  ChatReturn(IF r.OutputText # ""
                                             THEN <<r.OutputText>>
                                             ELSE extractText(r.Output), "nil")]
                   /\ pc' = [pc EXCEPT ![c] = "idle"]
              ELSE /\ resp' = resp
                   /\ pc' = [pc EXCEPT ![c] = "tools"]
    /\ UNCHANGED <<interpreter, specSource, goal, answer, frame, mu, smu,
                   cachedSimulation, counters, req, started>>

\* The function_call_output item of a call.
OutputItem(tc, out) ==
    [type |-> "function_call_output", call_id |-> tc.CallID, output |-> out.Output]

\* The loop over calls in which an error of the runner ends Chat.
Chat_tool_returnsErr(c) ==
    /\ pc[c] = "tools"
    /\ mu = Unlocked
    /\ LET tc == loc[c].calls[loc[c].i]
           t == RunTool(tc, cachedSimulation, interpreter)
           last == loc[c].i = Len(loc[c].calls)
           over == last /\ loc[c].step + 1 = MaxToolSteps
       IN  /\ t.returns
           /\ interpreter' = t.k
           /\ cachedSimulation' = t.docs
           /\ IF t.err # "nil"
              THEN /\ loc' = loc
                   /\ resp' = [resp EXCEPT ![c] = ChatReturn(<<>>, t.err)]
                   /\ pc' = [pc EXCEPT ![c] = "idle"]
              ELSE /\ loc' = [loc EXCEPT
                                 ![c].inputList = Append(@, OutputItem(tc, t.res)),
                                 ![c].i = IF last THEN 0 ELSE @ + 1,
                                 ![c].step = IF last THEN @ + 1 ELSE @]
                   /\ resp' = IF over
                              THEN [resp EXCEPT ![c] = ChatReturn(<<>>, "too many tool steps")]
                              ELSE resp
                   /\ pc' = [pc EXCEPT ![c] = IF over THEN "idle"
                                              ELSE IF last THEN "do" ELSE "tools"]
    /\ UNCHANGED <<specSource, goal, answer, frame, mu, smu, counters, req,
                   started>>

\* The loop over calls: the runner is called, its error becomes the output
\* {ok: false, error}, and the output item is appended; after the last call
\* the next step begins, and after the last step Chat returns its error.
Chat_tool(c) ==
    /\ pc[c] = "tools"
    /\ mu = Unlocked
    /\ LET tc == loc[c].calls[loc[c].i]
           t == RunTool(tc, cachedSimulation, interpreter)
           out == IF t.err # "nil"
                  THEN [Name |-> tc.Name,
                        Output |-> [ok |-> FALSE, error |-> t.err]]
                  ELSE t.res
           last == loc[c].i = Len(loc[c].calls)
           over == last /\ loc[c].step + 1 = MaxToolSteps
       IN  /\ t.returns
           /\ interpreter' = t.k
           /\ cachedSimulation' = t.docs
           /\ loc' = [loc EXCEPT
                         ![c].inputList = Append(@, OutputItem(tc, out)),
                         ![c].i = IF last THEN 0 ELSE @ + 1,
                         ![c].step = IF last THEN @ + 1 ELSE @]
           /\ resp' = IF over
                      THEN [resp EXCEPT ![c] = ChatReturn(<<>>, "too many tool steps")]
                      ELSE resp
           /\ pc' = [pc EXCEPT ![c] = IF over THEN "idle"
                                      ELSE IF last THEN "do" ELSE "tools"]
    /\ UNCHANGED <<specSource, goal, answer, frame, mu, smu, counters, req,
                   started>>

\* The runner is in a ctl_check whose query does not return: the goroutine
\* stays in QueryBool and keeps Kernel.mu.
Chat_tool_QueryBool(c) ==
    /\ pc[c] = "tools"
    /\ mu = Unlocked
    /\ LET tc == loc[c].calls[loc[c].i]
       IN  /\ ~RunTool(tc, cachedSimulation, interpreter).returns
           /\ goal' = <<"QueryBool", tc.Arguments.query>>
    /\ answer' = Running
    /\ mu' = [mu EXCEPT !.w = c]
    /\ pc' = [pc EXCEPT ![c] = "QueryBool"]
    /\ UNCHANGED <<interpreter, specSource, frame, smu, cachedSimulation,
                   counters, req, resp, loc, started>>

\* The goroutine serving POST /api/chat.
ChatClient == "c1"

InitChat ==
    /\ interpreter = KernelDb
    /\ specSource = <<>>
    /\ goal = NoGoal
    /\ answer = NoAnswer
    /\ frame = NoFrame
    /\ mu = Unlocked
    /\ smu = Nobody
    /\ cachedSimulation = NewDocStore
    /\ counters = [spec_loads |-> 0, ctl_checks |-> 0, queries |-> 0]
    /\ pc = [c \in Clients |-> "idle"]
    /\ req = [c \in Clients |-> NoRequest]
    /\ resp = [c \in Clients |-> NoResponse]
    /\ loc = [c \in Clients |-> ChatLocals]
    /\ started = 0

NextChat ==
    \/ Chat(ChatClient, "is done always true?")
    \/ Chat_do_error(ChatClient)
    \/ \E r \in Responses : Chat_do(ChatClient, r)
    \/ Chat_tool(ChatClient)
    \/ Chat_tool_QueryBool(ChatClient)

\* The goroutine of a request is scheduled as long as it can take a step.
SpecChat == InitChat /\ [][NextChat]_vars /\ WF_vars(NextChat)

IsCall(it) == TypeOf(it) = "function_call"
IsOutput(it) == TypeOf(it) = "function_call_output"

\* Chat has returned to goroutine c.
Returned(c) == resp[c] # NoResponse

\* The rounds with a tool call an input list shows: the outputs of one round
\* are together at the end of the round, after at least one item of the
\* model.
RoundsWithCalls(L) ==
    Cardinality({j \in 1..Len(L) :
                    IsOutput(L[j]) /\ (j = Len(L) \/ ~IsOutput(L[j + 1]))})

\* The items of an input list after its last function_call_output, or
\* after the user's message when there is none.
RECURSIVE LastRound(_)
LastRound(L) ==
    IF Len(L) <= 1 \/ IsOutput(L[Len(L)])
    THEN <<>>
    ELSE Append(LastRound(SubSeq(L, 1, Len(L) - 1)), L[Len(L)])

\* C38: Chat returns after at most 8 rounds.  It returns the model's text at
\* the first round without a function_call item, and the error "too many
\* tool steps" iff each of 8 rounds had a tool call; a call of Chat always
\* returns.
C38_ChatTerminates ==
    /\ [](\A c \in Clients :
             /\ RoundsWithCalls(loc[c].inputList) <= MaxToolSteps
             /\ Returned(c) =>
                   LET L == loc[c].inputList
                   IN  /\ (resp[c][3] = "too many tool steps")
                              <=> (RoundsWithCalls(L) = MaxToolSteps)
                       /\ (resp[c][3] = "nil") =>
                              /\ \A j \in 1..Len(LastRound(L)) : ~IsCall(LastRound(L)[j])
                              /\ LastRound(L) = loc[c].resp.Output
                              /\ resp[c][2] \in {<<loc[c].resp.OutputText>>,
                                                 extractText(LastRound(L))})
    /\ \A c \in Clients : (pc[c] # "idle") ~> (pc[c] = "idle")

\* The tools of RunTool.
Tools == {"doc_put", "prolog_assertz", "ctl_check", "seed_demo_model"}

\* s is an initial part of t.
IsPrefix(s, t) == Len(s) <= Len(t) /\ SubSeq(t, 1, Len(s)) = s

\* The tool calls of the round of goroutine c have been run: Chat is about
\* to send the next request, or has left the loop after its last step.
RoundDone(c) ==
    \/ pc[c] = "do" /\ loc[c].step > 0
    \/ Returned(c) /\ resp[c][3] = "too many tool steps"

\* C39: when the calls of a round have been run, the input list ends with
\* the model's output items of the round followed by one function_call_output
\* per call, in call order and with the call's call_id; the output of an
\* unknown tool is {ok: false, error}; the input list only grows, holds as
\* many outputs as calls, and Chat never returns the error of a tool.
C39_ToolOutputsAppended ==
    /\ [](\A c \in Clients :
             RoundDone(c) =>
                 LET L == loc[c].inputList
                     o == loc[c].resp.Output
                     cs == SelectSeq(o, IsCall)
                     n == Len(L)
                     k == Len(cs)
                 IN  /\ k > 0
                     /\ n >= Len(o) + k
                     /\ SubSeq(L, n - k - Len(o) + 1, n - k) = o
                     /\ \A j \in 1..k :
                           /\ IsOutput(L[n - k + j])
                           /\ L[n - k + j].call_id = cs[j].call_id
                           /\ cs[j].name \notin Tools =>
                                 L[n - k + j].output =
                                     [ok |-> FALSE,
                                      error |-> "unknown tool: " \o cs[j].name]
                     /\ Len(SelectSeq(L, IsOutput)) = Len(SelectSeq(L, IsCall)))
    /\ [](\A c \in Clients :
             Returned(c) =>
                 resp[c][3] \in {"nil", "too many tool steps", "openai error"})
    /\ [][\A c \in Clients :
             pc[c] # "idle" => IsPrefix(loc[c].inputList, loc'[c].inputList)]_vars

\* A round with two calls, the first of an unknown tool and both with the
\* same call_id, has been run and the next request is about to be sent.
C39_Witness ==
    \E c \in Clients :
        /\ pc[c] = "do"
        /\ loc[c].step > 1
        /\ Len(loc[c].calls) = 2
        /\ loc[c].calls[1].Name = "no_such_tool"
        /\ loc[c].calls[2].CallID = loc[c].calls[1].CallID

====
